---- MODULE Spec2Model ----
(***************************************************************************)
(* SnowMigrate: the analysis pipeline of the Snowflake migration effort    *)
(* calculator.                                                             *)
(*                                                                         *)
(*   get_source_db_connection  (db_connector_utils.py)   the connector     *)
(*   fetch_object_counts       (db_connector_utils.py)   the object counter*)
(*   analyze_database_sp       (analyze_database_sp.py)  the procedure     *)
(*   call_analyze_database_sp  (app.py)                  its caller        *)
(*   calculate_migration_effort(effort_calculator_logic.py) the estimator  *)
(*   calculate_effort_sp       (calculate_effort_sp.py)  the procedure     *)
(*   generate_document_sp      (generate_document_sp.py) the renderer and  *)
(*                                                       its two filters   *)
(*                                                                         *)
(* The program is sequential.  One request is one run of the state machine *)
(* below; pc is the position in the code, and every call of a database     *)
(* driver (connect, cursor, execute/fetch, close) is one step whose        *)
(* outcome the environment chooses.                                        *)
(*                                                                         *)
(* Four specifications share the variables:                                *)
(*   SpecConn    a direct call of get_source_db_connection                 *)
(*   Spec        a call of analyze_database_sp through app.py, or a direct *)
(*               call of fetch_object_counts, calculate_effort_sp or       *)
(*               generate_document_sp                                      *)
(*   SpecEffort  a call of calculate_migration_effort                      *)
(*   SpecApp     the page of app.py: edits of its inputs and presses of    *)
(*               its three buttons                                         *)
(***************************************************************************)
EXTENDS Integers, Sequences, FiniteSets, TLC

VARIABLES
    entry,                \* the function the run entered through
    pc,                   \* position in the code
    db_type,              \* source_db_type / db_type argument
    connection_params,    \* the connection_params dictionary
    credentials,          \* what _get_secret_credentials yields for this call
    json_kind,            \* shape of connection_details_json
    conn,                 \* the driver connection object: "none", "open", "closed"
    conn_ret,             \* value returned by get_source_db_connection
    conn_log,             \* which [DB_UTILS] message the connector printed last
    connect_args,         \* arguments of the driver connect call
    connectCalls,         \* number of driver connect calls made
    connCloseCalls,       \* number of conn.close() calls made
    connClosedBy,         \* the function that called conn.close(), "" if none
    db_name,              \* fetch_object_counts argument
    schema_name,          \* fetch_object_counts argument
    cursor,               \* the cursor object: "none", "open", "closed"
    cursorCloseCalls,     \* number of cursor.close() calls made
    counts,               \* local counts of fetch_object_counts
    schema_counts,        \* local schema_counts of the postgresql loop
    schemas_summary_list, \* local schemas_summary_list
    schemas_to_query,     \* local schemas_to_query (postgresql)
    si,                   \* index of current_schema_name in schemas_to_query
    qi,                   \* index of the next count query of the current kind
    target_schema_oracle, \* local target_schema_oracle
    queriesIssued,        \* number of cursor.execute calls made
    failedAt,             \* ordinal of the execute/fetch that raised, 0 if none
    obtained,             \* the counts the successful count queries returned, in order
    fetch_result,         \* what fetch_object_counts handed to its caller
    sp_retval,            \* value of the return statement of analyze_database_sp
    sp_result,            \* JSON document analyze_database_sp handed to its caller
    analysis_res,         \* value returned by call_analyze_database_sp
    source_type,          \* calculate_migration_effort argument
    objects,              \* calculate_migration_effort argument (the counts dictionary)
    effort_result,        \* value returned by calculate_migration_effort
    analysis_results_json,   \* argument of calculate_effort_sp and generate_document_sp
    ce_result,               \* what calculate_effort_sp handed to its caller
    effort_calculation_json, \* generate_document_sp argument
    template_string,         \* generate_document_sp argument
    doc_result,              \* what generate_document_sp handed to its caller
    session_state,           \* st.session_state of app.py
    ui_last                  \* the last user action on the page and the call it made

inputVars  == <<entry, db_type, connection_params, credentials, json_kind>>
connVars   == <<conn, conn_ret, conn_log, connect_args, connectCalls>>
closeVars  == <<connCloseCalls, connClosedBy>>
fetchArgs  == <<db_name, schema_name>>
fetchVars  == <<cursor, cursorCloseCalls, counts, schema_counts, schemas_summary_list,
                schemas_to_query, si, qi, target_schema_oracle, queriesIssued,
                failedAt, obtained, fetch_result>>
spVars     == <<sp_retval, sp_result, analysis_res>>
effortVars == <<source_type, objects, effort_result>>
docVars    == <<analysis_results_json, ce_result, effort_calculation_json,
                template_string, doc_result>>
uiVars     == <<session_state, ui_last>>
vars == <<pc, inputVars, connVars, closeVars, fetchArgs, fetchVars, spVars, effortVars,
          docVars, uiVars>>

----------------------------------------------------------------------------
(* Python values.                                                          *)

\* Python's None, and a key that is not in a dictionary.
None   == "<None>"
Absent == "<absent>"

\* Truth value of a string-or-None, as `not x` / all([...]) test it.
Truthy(v) == v # None /\ v # Absent /\ v # ""

\* dict.get(key): None for a key that is not there.
Get(v) == IF v = Absent THEN None ELSE v

\* dict.get(key, default): the default only for a key that is not there.
GetDefault(v, default) == IF v = Absent THEN default ELSE v

\* A port value: absent/None, an int (the UI's number_input), or a string.
PNone   == [t |-> "none", v |-> 0, s |-> ""]
PInt(n) == [t |-> "int",  v |-> n, s |-> ""]
PStr(x) == [t |-> "str",  v |-> 0, s |-> x]

PortTruthy(p) == \/ p.t = "int" /\ p.v # 0
                 \/ p.t = "str" /\ p.s # ""

\* int(x) on a string: the decimal strings of the model, ValueError otherwise.
IsDecimal(x) == x \in {"6000", "1025"}
IntOfStr(x)  == IF x = "6000" THEN 6000 ELSE 1025
\* str(n) on the port numbers of the model.
StrOfInt(n)  == IF n = 6000 THEN "6000" ELSE "1025"

----------------------------------------------------------------------------
(* get_source_db_connection                                                *)

SupportedKinds == {"postgresql", "oracle", "teradata", "databricks", "snowflake"}
\* app.py offers two kinds more than the connector supports.
SourceDbTypes  == SupportedKinds \cup {"sqlserver", "mysql"}

PG_DEFAULT_PORT  == 5432
ORA_DEFAULT_PORT == 1521
TD_DEFAULT_PORT  == "1025"

\* _get_secret_credentials raised ValueError.
CredFail == [ok |-> FALSE, username |-> Absent, password |-> Absent,
             token |-> Absent, account |-> Absent]

NoArgs == [driver |-> "", host |-> None, port |-> PNone, database |-> None,
           user |-> None, password |-> None, account |-> None,
           http_path |-> None, token |-> None, schema |-> None]

\* port = int(port_str) if port_str: the parsed port, None, or a ValueError.
ParsePort(port_str) ==
    IF ~PortTruthy(port_str) THEN [ok |-> TRUE, port |-> PNone]
    ELSE IF port_str.t = "int" THEN [ok |-> TRUE, port |-> port_str]
    ELSE IF IsDecimal(port_str.s) THEN [ok |-> TRUE, port |-> PInt(IntOfStr(port_str.s))]
    ELSE [ok |-> FALSE, port |-> PNone]

\* The account the snowflake validation tests: credentials first, then the params.
ValidatedAccount(cred, p) ==
    LET sf_account == Get(cred.account)
    IN  IF ~Truthy(sf_account) THEN Get(p.account) ELSE sf_account

\* The mutant of RequiredFieldsPresent: the databricks branch forgets http_path.
RequiredFieldsPresent_NoHttpPath(dbt, cred, p) ==
    IF dbt = "databricks"
    THEN Truthy(cred.token) /\ Truthy(p.host)
    ELSE IF dbt = "snowflake"
    THEN /\ Truthy(cred.username) /\ Truthy(cred.password)
         /\ Truthy(ValidatedAccount(cred, p)) /\ Truthy(p.database)
    ELSE /\ Truthy(cred.username) /\ Truthy(cred.password)
         /\ Truthy(p.host) /\ Truthy(p.database)

\* "Parameter validation based on db_type": TRUE when nothing required is missing.
RequiredFieldsPresent(dbt, cred, p) ==
    IF dbt = "databricks"
    THEN Truthy(cred.token) /\ Truthy(p.host) /\ Truthy(p.http_path)
    ELSE IF dbt = "snowflake"
    THEN /\ Truthy(cred.username) /\ Truthy(cred.password)
         /\ Truthy(ValidatedAccount(cred, p)) /\ Truthy(p.database)
    ELSE /\ Truthy(cred.username) /\ Truthy(cred.password)
         /\ Truthy(p.host) /\ Truthy(p.database)

\* The mutant of ConnectArgs: oracle falls back to the postgresql port.
ConnectArgs_OracleUsesPgDefault(dbt, cred, p, port) ==
    IF dbt = "postgresql" \/ dbt = "oracle" THEN
        [NoArgs EXCEPT !.driver = IF dbt = "oracle" THEN "oracledb" ELSE "psycopg2",
            !.host = Get(p.host),
            !.port = IF port # PNone THEN port ELSE PInt(PG_DEFAULT_PORT),
            !.database = Get(p.database), !.user = Get(cred.username),
            !.password = Get(cred.password)]
    ELSE IF dbt = "teradata" THEN
        [NoArgs EXCEPT !.driver = "teradatasql", !.host = Get(p.host),
            !.port = IF port # PNone THEN PStr(StrOfInt(port.v)) ELSE PStr(TD_DEFAULT_PORT),
            !.database = Get(p.database), !.user = Get(cred.username),
            !.password = Get(cred.password)]
    ELSE IF dbt = "databricks" THEN
        [NoArgs EXCEPT !.driver = "databricks_sql", !.host = Get(p.host),
            !.http_path = Get(p.http_path), !.token = Get(cred.token)]
    ELSE
        [NoArgs EXCEPT !.driver = "snowflake.connector",
            !.user = Get(cred.username), !.password = Get(cred.password),
            !.account = GetDefault(cred.account, Get(p.account)),
            !.database = Get(p.database), !.schema = Get(p.schema)]

\* The keyword arguments the kind's branch passes to its driver's connect.
ConnectArgs(dbt, cred, p, port) ==
    IF dbt = "postgresql" THEN
        [NoArgs EXCEPT !.driver = "psycopg2", !.host = Get(p.host),
            !.port = IF port # PNone THEN port ELSE PInt(PG_DEFAULT_PORT),
            !.database = Get(p.database), !.user = Get(cred.username),
            !.password = Get(cred.password)]
    ELSE IF dbt = "oracle" THEN
        [NoArgs EXCEPT !.driver = "oracledb", !.host = Get(p.host),
            !.port = IF port # PNone THEN port ELSE PInt(ORA_DEFAULT_PORT),
            !.database = Get(p.database), !.user = Get(cred.username),
            !.password = Get(cred.password)]
    ELSE IF dbt = "teradata" THEN
        [NoArgs EXCEPT !.driver = "teradatasql", !.host = Get(p.host),
            !.port = IF port # PNone THEN PStr(StrOfInt(port.v)) ELSE PStr(TD_DEFAULT_PORT),
            !.database = Get(p.database), !.user = Get(cred.username),
            !.password = Get(cred.password)]
    ELSE IF dbt = "databricks" THEN
        [NoArgs EXCEPT !.driver = "databricks_sql", !.host = Get(p.host),
            !.http_path = Get(p.http_path), !.token = Get(cred.token)]
    ELSE
        [NoArgs EXCEPT !.driver = "snowflake.connector",
            !.user = Get(cred.username), !.password = Get(cred.password),
            !.account = GetDefault(cred.account, Get(p.account)),
            !.database = Get(p.database), !.schema = Get(p.schema)]

\* Lines 177-219 and the final else: everything before the driver is called.
\* go = TRUE: the kind's try block is entered with these connect arguments.
BeforeConnect(dbt, cred, p) ==
    LET parsed == ParsePort(p.port)
    IN  IF ~cred.ok THEN [go |-> FALSE, log |-> "Failed to get credentials", args |-> NoArgs]
        ELSE IF ~parsed.ok THEN [go |-> FALSE, log |-> "Invalid port value", args |-> NoArgs]
        ELSE IF ~RequiredFieldsPresent(dbt, cred, p)
             THEN [go |-> FALSE, log |-> "Missing one or more connection parameters", args |-> NoArgs]
        ELSE IF dbt \notin SupportedKinds
             THEN [go |-> FALSE, log |-> "Unsupported database type for connection", args |-> NoArgs]
        ELSE [go |-> TRUE, log |-> "Attempting to connect", args |-> ConnectArgs(dbt, cred, p, parsed.port)]

\* What the driver can do in the kind's try block: connect succeeds, connect
\* raises, or (oracle) makedsn raises before connect is called.
DriverOutcomes(dbt) ==
    {"connected", "connect_error"} \cup (IF dbt = "oracle" THEN {"makedsn_error"} ELSE {})

\* The mutant of ConnectAttempts: a failed connect is tried once more.
ConnectAttempts_Retry(outcome) ==
    IF outcome = "makedsn_error" THEN 0 ELSE IF outcome = "connect_error" THEN 2 ELSE 1

\* Number of driver connect calls one pass through the try block makes.
ConnectAttempts(outcome) ==
    IF outcome = "makedsn_error" THEN 0 ELSE 1

\* get_source_db_connection up to the driver call.
GetConnStart ==
    /\ pc = "gc_start"
    /\ LET b == BeforeConnect(db_type, credentials, connection_params)
       IN  /\ conn_log' = b.log
           /\ connect_args' = b.args
           /\ pc' = IF b.go THEN "gc_connect" ELSE "gc_return"
    /\ conn_ret' = None
    /\ UNCHANGED <<inputVars, conn, connectCalls, closeVars, fetchArgs, fetchVars,
                   spVars, effortVars, docVars, uiVars>>

\* The kind's try block: one connect call, every exception turned into None.
GetConnDriver ==
    /\ pc = "gc_connect"
    /\ \E outcome \in DriverOutcomes(db_type) :
         /\ connectCalls' = connectCalls + ConnectAttempts(outcome)
         /\ conn' = IF outcome = "connected" THEN "open" ELSE "none"
         /\ conn_ret' = IF outcome = "connected" THEN "conn" ELSE None
         /\ conn_log' = IF outcome = "connected" THEN "Successfully connected"
                        ELSE IF outcome = "makedsn_error" THEN "connection error: makedsn"
                        ELSE "connection error: connect"
    /\ pc' = "gc_return"
    /\ UNCHANGED <<inputVars, connect_args, closeVars, fetchArgs, fetchVars,
                   spVars, effortVars, docVars, uiVars>>

----------------------------------------------------------------------------
(* fetch_object_counts                                                     *)

MaxSchemas == 3    \* most schemas the postgresql database holds

\* The values COUNT(*) returns in the model.
CountValues == {0, 1}

ObjectTypes == {"tables", "views", "procedures", "functions"}
ZeroCounts  == [tables |-> 0, views |-> 0, procedures |-> 0, functions |-> 0]

\* str.upper() and str.lower() on the names of the model.
Upper(x) == IF x \in {"Sch", "sch", "SCH"} THEN "SCH" ELSE IF x \in {"db", "DB"} THEN "DB" ELSE x
Lower(x) == IF x \in {"Sch", "sch", "SCH"} THEN "sch" ELSE IF x \in {"db", "DB"} THEN "db" ELSE x

\* Names of the schemas a postgresql database holds, in catalog order.
PgSchemaNames == <<"public", "app", "audit", "stage", "tmp">>

\* A result dictionary: keys is the set of keys it has.
Doc(ks, total, summary, err) ==
    [keys |-> ks, total_objects |-> total, schemas_summary |-> summary, error |-> err]
NoDoc == Doc({}, ZeroCounts, <<>>, "")
\* {"total_objects": counts, "schemas_summary": schemas_summary_list}
CountsDoc(total, summary) == Doc({"total_objects", "schemas_summary"}, total, summary, "")
\* {"total_objects": counts, "schemas_summary": schemas_summary_list, "error": ...}
CountsErrorDoc(total, summary, err) ==
    Doc({"total_objects", "schemas_summary", "error"}, total, summary, err)
\* {"error": ...}
ErrorDoc(err) == Doc({"error"}, ZeroCounts, <<>>, err)

\* The mutant of CannedCounts: the None branch answers with zeros.
CannedCounts_AllZero == ZeroCounts

\* The canned counts of the "connection is None" branch.
CannedCounts == [tables |-> 10, views |-> 5, procedures |-> 2, functions |-> 3]

\* {"name": name, **counts}
SummaryEntry(name, c) ==
    [name |-> name, tables |-> c.tables, views |-> c.views,
     procedures |-> c.procedures, functions |-> c.functions]

\* The order in which each kind's branch issues its four count queries.
QueryOrder(dbt) ==
    IF dbt \in {"postgresql", "databricks"}
    THEN <<"tables", "views", "functions", "procedures">>
    ELSE <<"tables", "views", "procedures", "functions">>

\* The mutant of TargetOrDb: the database name is preferred to the schema.
TargetOrDb_DbFirst(schema, db) == IF Truthy(db) THEN db ELSE schema

\* target_database_teradata / target_schema_databricks
TargetOrDb(schema, db) == IF Truthy(schema) THEN schema ELSE db

\* The name of the single schemas_summary entry of the non-postgresql kinds.
SummaryName(dbt, db, schema, ora) ==
    IF dbt = "oracle" THEN ora
    ELSE IF dbt = "snowflake"
         THEN IF Truthy(schema) THEN db \o "." \o Upper(schema) ELSE db \o " (all schemas)"
    ELSE TargetOrDb(schema, db)

\* The mutant of Aggregate: the totals are always the last schema's counts.
Aggregate_LastOnly(total, sc, schema, n) == sc

\* Lines 441-447: the totals after one schema of the postgresql loop.
Aggregate(total, sc, schema, n) ==
    IF ~Truthy(schema) \/ n > 1
    THEN [tables     |-> total.tables + sc.tables,
          views      |-> total.views + sc.views,
          procedures |-> total.procedures + sc.procedures,
          functions  |-> total.functions + sc.functions]
    ELSE sc

\* The mutant of Dispatch: a kind without a branch falls through to the
\* plain return of line 627.
Dispatch_UnknownKindFallsThrough(dbt, db, schema) ==
    IF dbt = "postgresql" THEN [pc |-> "fo_pg_schemas", early |-> NoDoc]
    ELSE IF dbt \in {"teradata", "databricks"} THEN
        IF ~Truthy(TargetOrDb(schema, db))
        THEN [pc |-> "fo_finally",
              early |-> CountsErrorDoc(ZeroCounts, <<>>, "name is required")]
        ELSE [pc |-> "fo_count", early |-> NoDoc]
    ELSE IF dbt = "oracle" THEN
        IF ~Truthy(schema)
        THEN [pc |-> "fo_ora_schema", early |-> NoDoc]
        ELSE [pc |-> "fo_count", early |-> NoDoc]
    ELSE IF dbt = "snowflake" THEN
        IF ~Truthy(db)
        THEN [pc |-> "fo_finally",
              early |-> CountsErrorDoc(ZeroCounts, <<>>, "Database (Catalog) name required for Snowflake.")]
        ELSE [pc |-> "fo_count", early |-> NoDoc]
    ELSE [pc |-> "fo_finally", early |-> CountsDoc(ZeroCounts, <<>>)]

\* Where the kind dispatch of lines 394-624 goes once the cursor exists:
\* a first query, or an early return.
Dispatch(dbt, db, schema) ==
    IF dbt = "postgresql" THEN [pc |-> "fo_pg_schemas", early |-> NoDoc]
    ELSE IF dbt = "teradata" THEN
        IF ~Truthy(TargetOrDb(schema, db))
        THEN [pc |-> "fo_finally",
              early |-> CountsErrorDoc(ZeroCounts, <<>>, "Database/Schema name is required for Teradata.")]
        ELSE [pc |-> "fo_count", early |-> NoDoc]
    ELSE IF dbt = "databricks" THEN
        IF ~Truthy(TargetOrDb(schema, db))
        THEN [pc |-> "fo_finally",
              early |-> CountsErrorDoc(ZeroCounts, <<>>, "Schema (Database) name is required for Databricks.")]
        ELSE [pc |-> "fo_count", early |-> NoDoc]
    ELSE IF dbt = "oracle" THEN
        IF ~Truthy(schema)
        THEN [pc |-> "fo_ora_schema", early |-> NoDoc]
        ELSE [pc |-> "fo_count", early |-> NoDoc]
    ELSE IF dbt = "snowflake" THEN
        IF ~Truthy(db)
        THEN [pc |-> "fo_finally",
              early |-> CountsErrorDoc(ZeroCounts, <<>>, "Database (Catalog) name required for Snowflake.")]
        ELSE [pc |-> "fo_count", early |-> NoDoc]
    ELSE [pc |-> "fo_finally",
          early |-> CountsErrorDoc(ZeroCounts, <<>>, "Object counting not implemented")]

Pending(doc) == [how |-> "pending", doc |-> doc]
NoResult     == [how |-> "none", doc |-> NoDoc]

\* Lines 362-392: the None check, the locals, connection.cursor() and the dispatch.
FetchStart ==
    /\ pc = "fo_start"
    /\ counts' = ZeroCounts
    /\ schemas_summary_list' = <<>>
    /\ IF conn = "none"
       THEN /\ fetch_result' = [how |-> "return", doc |-> CountsDoc(CannedCounts, <<>>)]
            /\ pc' = "fo_return"
            /\ UNCHANGED <<cursor, target_schema_oracle>>
       ELSE \E ok \in BOOLEAN :
              IF ok
              THEN LET d == Dispatch(db_type, db_name, schema_name)
                   IN  /\ cursor' = "open"
                       /\ target_schema_oracle' =
                            IF Truthy(schema_name) THEN Upper(schema_name) ELSE None
                       /\ pc' = d.pc
                       /\ fetch_result' = IF d.pc = "fo_finally" THEN Pending(d.early)
                                          ELSE fetch_result
              ELSE /\ fetch_result' = Pending(CountsErrorDoc(ZeroCounts, <<>>, "cursor error"))
                   /\ pc' = "fo_finally"
                   /\ UNCHANGED <<cursor, target_schema_oracle>>
    /\ UNCHANGED <<inputVars, connVars, closeVars, fetchArgs, cursorCloseCalls,
                   schema_counts, schemas_to_query, si, qi, queriesIssued, failedAt,
                   obtained, spVars, effortVars, docVars, uiVars>>

\* Rows of the schema query: the schemas of the database, or the one named
\* schema_name (schema names are unique in information_schema.schemata).
SchemaRows(schema, n) ==
    [i \in 1..n |-> IF Truthy(schema) THEN Lower(schema) ELSE PgSchemaNames[i]]
RowCounts(schema) == IF Truthy(schema) THEN {0, 1} ELSE 0..MaxSchemas

\* Lines 397-413: the postgresql schema query and its two early returns.
FetchPgSchemas ==
    /\ pc = "fo_pg_schemas"
    /\ queriesIssued' = queriesIssued + 1
    /\ \E ok \in BOOLEAN, n \in RowCounts(schema_name) :
         IF ~ok
         THEN /\ n = 0
              /\ failedAt' = queriesIssued + 1
              /\ fetch_result' = Pending(CountsErrorDoc(counts, schemas_summary_list, "psycopg2 error"))
              /\ pc' = "fo_finally"
              /\ UNCHANGED <<schemas_to_query, si, qi, schema_counts>>
         ELSE /\ schemas_to_query' = SchemaRows(schema_name, n)
              /\ failedAt' = failedAt
              /\ IF n = 0
                 THEN /\ fetch_result' = Pending(CountsDoc(counts, schemas_summary_list))
                      /\ pc' = "fo_finally"
                      /\ UNCHANGED <<si, qi, schema_counts>>
                 ELSE /\ si' = 1
                      /\ qi' = 1
                      /\ schema_counts' = ZeroCounts
                      /\ pc' = "fo_pg_count"
                      /\ UNCHANGED fetch_result
    /\ UNCHANGED <<inputVars, connVars, closeVars, fetchArgs, cursor, cursorCloseCalls,
                   counts, schemas_summary_list, target_schema_oracle, obtained,
                   spVars, effortVars, docVars, uiVars>>

\* What the successful count queries returned so far: schema, object type, value.
Got(s, f, v) == [schema |-> s, type |-> f, value |-> v]

\* Lines 415-447: one count query of the postgresql loop; the fourth one ends
\* the iteration (append the summary, aggregate, next schema or return).
FetchPgCount ==
    /\ pc = "fo_pg_count"
    /\ queriesIssued' = queriesIssued + 1
    /\ \E ok \in BOOLEAN, v \in CountValues :
         LET f    == QueryOrder(db_type)[qi]
             name == schemas_to_query[si]
             sc   == [schema_counts EXCEPT ![f] = v]
             tot  == Aggregate(counts, sc, schema_name, Len(schemas_to_query))
             lst  == Append(schemas_summary_list, SummaryEntry(name, sc))
         IN  IF ~ok
             THEN /\ v = 0
                  /\ failedAt' = queriesIssued + 1
                  /\ fetch_result' = Pending(CountsErrorDoc(counts, schemas_summary_list, "psycopg2 error"))
                  /\ pc' = "fo_finally"
                  /\ UNCHANGED <<schema_counts, counts, schemas_summary_list, si, qi, obtained>>
             ELSE /\ obtained' = Append(obtained, Got(name, f, v))
                  /\ failedAt' = failedAt
                  /\ IF qi < 4
                     THEN /\ schema_counts' = sc
                          /\ qi' = qi + 1
                          /\ UNCHANGED <<counts, schemas_summary_list, si, pc, fetch_result>>
                     ELSE /\ counts' = tot
                          /\ schemas_summary_list' = lst
                          /\ IF si < Len(schemas_to_query)
                             THEN /\ si' = si + 1
                                  /\ qi' = 1
                                  /\ schema_counts' = ZeroCounts
                                  /\ UNCHANGED <<pc, fetch_result>>
                             ELSE /\ schema_counts' = sc
                                  /\ fetch_result' = Pending(CountsDoc(tot, lst))
                                  /\ pc' = "fo_finally"
                                  /\ UNCHANGED <<si, qi>>
    /\ UNCHANGED <<inputVars, connVars, closeVars, fetchArgs, cursor, cursorCloseCalls,
                   schemas_to_query, target_schema_oracle, spVars, effortVars, docVars, uiVars>>

\* The mutant of FetchOraSchema: a current-schema query that yields nothing
\* or fails with oracledb.Error goes on to the count queries.
FetchOraSchema_CountsWithoutOwner ==
    /\ pc = "fo_ora_schema"
    /\ queriesIssued' = queriesIssued + 1
    /\ \E outcome \in {"name", "empty", "oracledb_error", "other_error"} :
         /\ failedAt' = IF outcome \in {"oracledb_error", "other_error"}
                        THEN queriesIssued + 1 ELSE failedAt
         /\ IF outcome # "other_error"
            THEN /\ target_schema_oracle' = IF outcome = "name" THEN Upper("Sch") ELSE None
                 /\ qi' = 1
                 /\ pc' = "fo_count"
                 /\ UNCHANGED fetch_result
            ELSE /\ fetch_result' =
                      Pending(CountsErrorDoc(counts, schemas_summary_list, "driver error"))
                 /\ pc' = "fo_finally"
                 /\ UNCHANGED <<target_schema_oracle, qi>>
    /\ UNCHANGED <<inputVars, connVars, closeVars, fetchArgs, cursor, cursorCloseCalls,
                   counts, schema_counts, schemas_summary_list, schemas_to_query, si,
                   obtained, spVars, effortVars, docVars, uiVars>>

\* Lines 534-549: oracle without a schema asks the connection for its current
\* schema; oracledb.Error is caught there, any other exception by the outer handler.
FetchOraSchema ==
    /\ pc = "fo_ora_schema"
    /\ queriesIssued' = queriesIssued + 1
    /\ \E outcome \in {"name", "empty", "oracledb_error", "other_error"} :
         /\ failedAt' = IF outcome \in {"oracledb_error", "other_error"}
                        THEN queriesIssued + 1 ELSE failedAt
         /\ IF outcome = "name"
            THEN /\ target_schema_oracle' = Upper("Sch")
                 /\ qi' = 1
                 /\ pc' = "fo_count"
                 /\ UNCHANGED fetch_result
            ELSE /\ fetch_result' =
                      IF outcome = "other_error"
                      THEN Pending(CountsErrorDoc(counts, schemas_summary_list, "driver error"))
                      ELSE Pending(CountsErrorDoc(counts, schemas_summary_list,
                              "Schema name required for Oracle object counting and could not be derived."))
                 /\ pc' = "fo_finally"
                 /\ UNCHANGED <<target_schema_oracle, qi>>
    /\ UNCHANGED <<inputVars, connVars, closeVars, fetchArgs, cursor, cursorCloseCalls,
                   counts, schema_counts, schemas_summary_list, schemas_to_query, si,
                   obtained, spVars, effortVars, docVars, uiVars>>

\* Lines 457-488, 504-528, 553-581, 592-620: one count query of teradata,
\* databricks, oracle or snowflake; the fourth one appends the summary and returns.
FetchCount ==
    /\ pc = "fo_count"
    /\ queriesIssued' = queriesIssued + 1
    /\ \E ok \in BOOLEAN, v \in CountValues :
         LET f    == QueryOrder(db_type)[qi]
             name == SummaryName(db_type, db_name, schema_name, target_schema_oracle)
             c    == [counts EXCEPT ![f] = v]
             lst  == Append(schemas_summary_list, SummaryEntry(name, c))
         IN  IF ~ok
             THEN /\ v = 0
                  /\ failedAt' = queriesIssued + 1
                  /\ fetch_result' = Pending(CountsErrorDoc(counts, schemas_summary_list, "driver error"))
                  /\ pc' = "fo_finally"
                  /\ UNCHANGED <<counts, schemas_summary_list, qi, obtained>>
             ELSE /\ obtained' = Append(obtained, Got(name, f, v))
                  /\ failedAt' = failedAt
                  /\ counts' = c
                  /\ IF qi < 4
                     THEN /\ qi' = qi + 1
                          /\ UNCHANGED <<schemas_summary_list, pc, fetch_result>>
                     ELSE /\ schemas_summary_list' = lst
                          /\ fetch_result' = Pending(CountsDoc(c, lst))
                          /\ pc' = "fo_finally"
                          /\ UNCHANGED qi
    /\ UNCHANGED <<inputVars, connVars, closeVars, fetchArgs, cursor, cursorCloseCalls,
                   schema_counts, schemas_to_query, si, target_schema_oracle,
                   spVars, effortVars, docVars, uiVars>>

\* The mutant of FetchFinally: the finally block closes the connection too.
FetchFinally_ClosesConnection ==
    /\ pc = "fo_finally"
    /\ IF cursor = "open"
       THEN \E ok \in BOOLEAN :
              /\ cursorCloseCalls' = cursorCloseCalls + 1
              /\ cursor' = IF ok THEN "closed" ELSE "open"
              /\ fetch_result' = IF ok THEN [fetch_result EXCEPT !.how = "return"]
                                 ELSE [how |-> "raise", doc |-> NoDoc]
       ELSE /\ fetch_result' = [fetch_result EXCEPT !.how = "return"]
            /\ UNCHANGED <<cursor, cursorCloseCalls>>
    /\ conn' = "closed"
    /\ connCloseCalls' = connCloseCalls + 1
    /\ connClosedBy' = "fetch_object_counts"
    /\ pc' = "fo_return"
    /\ UNCHANGED <<inputVars, conn_ret, conn_log, connect_args, connectCalls, fetchArgs,
                   counts, schema_counts, schemas_summary_list, schemas_to_query, si, qi,
                   target_schema_oracle, queriesIssued, failedAt, obtained, spVars,
                   effortVars, docVars, uiVars>>

\* The mutant of FetchFinally: the cursor is closed only when no error record
\* is being returned.
FetchFinally_LeakOnError ==
    /\ pc = "fo_finally"
    /\ IF cursor = "open" /\ "error" \notin fetch_result.doc.keys
       THEN \E ok \in BOOLEAN :
              /\ cursorCloseCalls' = cursorCloseCalls + 1
              /\ cursor' = IF ok THEN "closed" ELSE "open"
              /\ fetch_result' = IF ok THEN [fetch_result EXCEPT !.how = "return"]
                                 ELSE [how |-> "raise", doc |-> NoDoc]
       ELSE /\ fetch_result' = [fetch_result EXCEPT !.how = "return"]
            /\ UNCHANGED <<cursor, cursorCloseCalls>>
    /\ pc' = "fo_return"
    /\ UNCHANGED <<inputVars, connVars, closeVars, fetchArgs,
                   counts, schema_counts, schemas_summary_list, schemas_to_query, si, qi,
                   target_schema_oracle, queriesIssued, failedAt, obtained, spVars,
                   effortVars, docVars, uiVars>>

\* Lines 636-638: finally: if cursor: cursor.close().  An exception of close
\* replaces the pending return and leaves fetch_object_counts.
FetchFinally ==
    /\ pc = "fo_finally"
    /\ IF cursor = "open"
       THEN \E ok \in BOOLEAN :
              /\ cursorCloseCalls' = cursorCloseCalls + 1
              /\ cursor' = IF ok THEN "closed" ELSE "open"
              /\ fetch_result' = IF ok THEN [fetch_result EXCEPT !.how = "return"]
                                 ELSE [how |-> "raise", doc |-> NoDoc]
       ELSE /\ fetch_result' = [fetch_result EXCEPT !.how = "return"]
            /\ UNCHANGED <<cursor, cursorCloseCalls>>
    /\ pc' = "fo_return"
    /\ UNCHANGED <<inputVars, connVars, closeVars, fetchArgs,
                   counts, schema_counts, schemas_summary_list, schemas_to_query, si, qi,
                   target_schema_oracle, queriesIssued, failedAt, obtained, spVars,
                   effortVars, docVars, uiVars>>

----------------------------------------------------------------------------
(* analyze_database_sp and its caller in app.py                            *)

\* Lines 66-70: json.loads(connection_details_json) and the two .get calls.
AnalyzeStart ==
    /\ pc = "ad_start"
    /\ IF json_kind = "object"
       THEN /\ db_name' = Get(connection_params.database)
            /\ schema_name' = Get(connection_params.schema)
            /\ pc' = "gc_start"
            /\ UNCHANGED sp_retval
       ELSE /\ sp_retval' = IF json_kind = "malformed"
                            THEN ErrorDoc("Invalid JSON")
                            ELSE ErrorDoc("Unexpected error in SP")
            /\ pc' = "ad_finally"
            /\ UNCHANGED fetchArgs
    /\ UNCHANGED <<inputVars, connVars, closeVars, fetchVars, sp_result, analysis_res,
                   effortVars, docVars, uiVars>>

\* The mutant of AnalyzeAfterConnect: the counts are fetched whether or not
\* there is a connection.
AnalyzeAfterConnect_CountsWithoutConnection ==
    /\ pc = "gc_return"
    /\ entry = "analyze_database_sp"
    /\ pc' = "fo_start"
    /\ UNCHANGED <<inputVars, connVars, closeVars, fetchArgs, fetchVars, spVars,
                   effortVars, docVars, uiVars>>

\* Lines 73-76 and 86-87: conn = get_source_db_connection(...); if conn: ... else: ...
AnalyzeAfterConnect ==
    /\ pc = "gc_return"
    /\ entry = "analyze_database_sp"
    /\ IF conn_ret # None
       THEN /\ pc' = "fo_start"
            /\ UNCHANGED sp_retval
       ELSE /\ sp_retval' = ErrorDoc("Failed to connect to source database")
            /\ pc' = "ad_finally"
    /\ UNCHANGED <<inputVars, connVars, closeVars, fetchArgs, fetchVars, sp_result,
                   analysis_res, effortVars, docVars, uiVars>>

\* The value of the return statement after fetch_object_counts came back
\* (lines 81-88); dumps_ok is whether json.dumps(analysis_results) succeeds.
ReturnAfterFetch(fr, dumps_ok) ==
    IF fr.how = "raise" THEN ErrorDoc("Error fetching object counts")
    ELSE IF "error" \in fr.doc.keys THEN ErrorDoc("Error fetching object counts")
    ELSE IF dumps_ok THEN fr.doc
    ELSE ErrorDoc("Unexpected error in SP")

\* Lines 77-88 and 95-96.  json.dumps can fail only on a value a driver returned.
AnalyzeAfterFetch ==
    /\ pc = "fo_return"
    /\ entry = "analyze_database_sp"
    /\ \E dumps_ok \in BOOLEAN :
         /\ ~dumps_ok => (/\ fetch_result.how = "return"
                           /\ "error" \notin fetch_result.doc.keys
                           /\ obtained # <<>>)
         /\ sp_retval' = ReturnAfterFetch(fetch_result, dumps_ok)
    /\ pc' = "ad_finally"
    /\ UNCHANGED <<inputVars, connVars, closeVars, fetchArgs, fetchVars, sp_result,
                   analysis_res, effortVars, docVars, uiVars>>

\* The mutant of AnalyzeFinally: the connection is closed only when no error
\* document is being returned.
AnalyzeFinally_LeakOnError ==
    /\ pc = "ad_finally"
    /\ IF conn_ret # None /\ "error" \notin sp_retval.keys
       THEN \E ok \in BOOLEAN :
              /\ connCloseCalls' = connCloseCalls + 1
              /\ connClosedBy' = "analyze_database_sp"
              /\ conn' = IF ok THEN "closed" ELSE conn
       ELSE UNCHANGED <<conn, closeVars>>
    /\ sp_result' = sp_retval
    /\ pc' = "ad_return"
    /\ UNCHANGED <<inputVars, conn_ret, conn_log, connect_args, connectCalls, fetchArgs,
                   fetchVars, sp_retval, analysis_res, effortVars, docVars, uiVars>>

\* Lines 97-102: finally: if conn: try conn.close() except: print.  The value
\* of the return statement is what the caller gets.
AnalyzeFinally ==
    /\ pc = "ad_finally"
    /\ IF conn_ret # None
       THEN \E ok \in BOOLEAN :
              /\ connCloseCalls' = connCloseCalls + 1
              /\ connClosedBy' = "analyze_database_sp"
              /\ conn' = IF ok THEN "closed" ELSE conn
       ELSE UNCHANGED <<conn, closeVars>>
    /\ sp_result' = sp_retval
    /\ pc' = "ad_return"
    /\ UNCHANGED <<inputVars, conn_ret, conn_log, connect_args, connectCalls, fetchArgs,
                   fetchVars, sp_retval, analysis_res, effortVars, docVars, uiVars>>

NoneRes     == [isNone |-> TRUE, doc |-> NoDoc]
SomeRes(d)  == [isNone |-> FALSE, doc |-> d]

\* app.py lines 59-64: result = json.loads(result_json); an error document
\* becomes None.
CallAnalyzeReturn ==
    /\ pc = "ad_return"
    /\ analysis_res' = IF "error" \in sp_result.keys THEN NoneRes ELSE SomeRes(sp_result)
    /\ pc' = "app_done"
    /\ UNCHANGED <<inputVars, connVars, closeVars, fetchArgs, fetchVars, sp_retval,
                   sp_result, effortVars, docVars, uiVars>>

----------------------------------------------------------------------------
(* calculate_migration_effort                                              *)

EFFORT_MULTIPLIERS == [tables |-> 2, views |-> 1, procedures |-> 4, functions |-> 3]
COMPLEXITY_THRESHOLDS == [Low |-> 50, Medium |-> 100, High |-> 200]

\* objects.items(): the dictionary's items, one <<key, value>> pair per key.
ItemOrder == <<"tables", "views", "procedures", "functions", "sequences">>
Items(objs) ==
    LET ks == SelectSeq(ItemOrder, LAMBDA k : k \in DOMAIN objs)
    IN  [i \in 1..Len(ks) |-> <<ks[i], objs[ks[i]]>>]

\* The mutant of EffortOf: every object type is charged the hours of a table.
EffortOf_TableRate(obj_type, count) == count * EFFORT_MULTIPLIERS["tables"]

\* effort = count * EFFORT_MULTIPLIERS[obj_type]
EffortOf(obj_type, count) == count * EFFORT_MULTIPLIERS[obj_type]

\* Lines 188-196: the loop over objects.items().
RECURSIVE EffortLoop(_, _, _)
EffortLoop(items, object_efforts, total_hours) ==
    IF items = <<>>
    THEN [object_efforts |-> object_efforts, total_hours |-> total_hours]
    ELSE LET obj_type == Head(items)[1]
             count    == Head(items)[2]
         IN  IF obj_type \in DOMAIN EFFORT_MULTIPLIERS
             THEN LET effort == EffortOf(obj_type, count)
                  IN  EffortLoop(Tail(items),
                          [k \in DOMAIN object_efforts \cup {obj_type} |->
                              IF k = obj_type
                              THEN [count |-> count,
                                    hours_per_object |-> EFFORT_MULTIPLIERS[obj_type],
                                    total_hours |-> effort]
                              ELSE object_efforts[k]],
                          total_hours + effort)
             ELSE EffortLoop(Tail(items), object_efforts, total_hours)

\* The mutant of Complexity: the thresholds are compared with > instead of >=.
Complexity_Strict(total_hours) ==
    IF total_hours > COMPLEXITY_THRESHOLDS["High"] THEN "High"
    ELSE IF total_hours > COMPLEXITY_THRESHOLDS["Medium"] THEN "Medium"
    ELSE "Low"

\* Lines 198-202.
Complexity(total_hours) ==
    IF total_hours >= COMPLEXITY_THRESHOLDS["High"] THEN "High"
    ELSE IF total_hours >= COMPLEXITY_THRESHOLDS["Medium"] THEN "Medium"
    ELSE "Low"

\* list[:n]
Take(list, n) == SubSeq(list, 1, IF n < Len(list) THEN n ELSE Len(list))

\* x in list
InList(x, list) == \E i \in 1..Len(list) : list[i] = x

\* Lines 22-30: common_snowflake_benefits (each entry by the start of its text).
common_snowflake_benefits ==
    << "Enhanced Scalability & Performance: Independ",
       "Simplified Data Management: Consolidate data",
       "Faster Analytics & Insights: Accelerate data",
       "Direct Cost Savings (TCO): Potential for low",
       "Optimized Resource Usage: Eliminate over-pro",
       "Seamless Data Sharing: Securely share live d",
       "Reduced Operational Overhead: Fully managed" >>

\* Lines 32-74: the source_specific_benefits of the kind's branch.
source_specific_benefits(src) ==
    IF src = "oracle" THEN
        << "Significant reduction in licensing costs: Tr",
           "Move away from complex and costly Oracle-spe",
           "Improved agility and faster time-to-market f" >>
    ELSE IF src = "sqlserver" THEN
        << "Eliminate SQL Server licensing costs (especi",
           "Transition from potentially restrictive on-p",
           "Gain access to broader data integration and" >>
    ELSE IF src = "postgresql" THEN
        << "Achieve higher levels of scalability and con",
           "Reduce operational burden of managing, tunin",
           "Leverage Snowflake's robust security and gov" >>
    ELSE IF src = "teradata" THEN
        << "Modernize from a legacy, often expensive, Te",
           "Significant cost savings by moving away from",
           "Improve data democratizaion and support for" >>
    ELSE IF src = "databricks" THEN
        << "Simplify data warehousing and BI workloads w",
           "Potentially reduce TCO by consolidating data",
           "Benefit from Snowflake's strong governance," >>
    ELSE IF src = "snowflake" THEN
        << "Consolidate multiple Snowflake accounts for",
           "Optimize existing Snowflake workloads by re-",
           "Leverage latest Snowflake features (e.g., Sn" >>
    ELSE
        << "Modernize your data stack by moving from a p",
           "Improve data accessibility and self-service" >>

\* Lines 84-90: the baseline risks.
baseline_risks ==
    << "Data loss during migration",
       "Potential downtime during cutover",
       "Performance impact during migration",
       "Data type compatibility issues",
       "Function and procedure syntax differences" >>

\* Lines 92-121: what the kind's branch extends the risks with.
source_risks(src) ==
    IF src = "oracle" THEN
        << "PL/SQL to Snowflake SQL conversion complexit",
           "Oracle-specific features (e.g., AQ, Spatial)",
           "Sequence and identity column handling differ" >>
    ELSE IF src = "sqlserver" THEN
        << "T-SQL to Snowflake SQL conversion complexity",
           "SQL Server-specific features (e.g., linked s",
           "Identity column and sequence handling differ" >>
    ELSE IF src = "postgresql" THEN
        << "PostgreSQL-specific data types (e.g., PostGI",
           "PL/pgSQL to Snowflake SQL/JavaScript UDF con",
           "Extension and custom function compatibility" >>
    ELSE IF src = "teradata" THEN
        << "BTEQ/TPT script conversion to SnowSQL/Python",
           "Teradata-specific SQL extensions and utiliti",
           "Handling of Teradata-specific data types and" >>
    ELSE IF src = "databricks" THEN
        << "Converting Delta Lake specific features (e.g",
           "Rewriting Spark SQL/Python/Scala UDFs and jo",
           "Managing data consistency and schema evoluti" >>
    ELSE
        << >>

\* Lines 123-128: what complexity High extends the risks with.
high_risks ==
    << "Extended migration timeline and higher resou",
       "Increased complexity in data validation and",
       "More intricate rollback procedures and conti" >>

\* Lines 133-139: the baseline recommendations.
baseline_recommendations ==
    << "Create comprehensive backup of source data b",
       "Implement a dedicated testing environment fo",
       "Document all custom functions, procedures, a",
       "Plan for an adequate downtime window for the",
       "Develop and test a detailed rollback plan in" >>

\* Lines 141-170: what the kind's branch extends the recommendations with.
source_recommendations(src) ==
    IF src = "oracle" THEN
        << "Utilize schema conversion tools and thorough",
           "Focus on PL/SQL to Snowflake SQL/JavaScript",
           "Address sequence generation and identity col" >>
    ELSE IF src = "sqlserver" THEN
        << "Analyze T-SQL code for constructs that need",
           "Plan for handling SQL Server Agent jobs and",
           "Document and test identity column and sequen" >>
    ELSE IF src = "postgresql" THEN
        << "Carefully map PostgreSQL data types and exte",
           "Develop a strategy for converting PL/pgSQL f",
           "Assess and plan for migration of custom func" >>
    ELSE IF src = "teradata" THEN
        << "Plan for Teradata script (BTEQ, FastLoad, et",
           "Analyze Teradata SQL for proprietary feature",
           "Develop a data migration strategy focusing o" >>
    ELSE IF src = "databricks" THEN
        << "Identify and plan for migrating Delta Lake t",
           "Assess Spark jobs for logic that can be tran",
           "Define a strategy for data extraction from D" >>
    ELSE
        << >>

\* Lines 172-177: what complexity High extends the recommendations with.
high_recommendations ==
    << "Strongly consider a phased migration approac",
       "Implement comprehensive automated testing an",
       "Establish clear communication channels and a" >>

\* The mutant of generate_business_value_add: the kind's entries are not cut
\* to three and the common ones are not filtered.
generate_business_value_add_NoCap(src) ==
    source_specific_benefits(src) \o source_specific_benefits(src)
        \o common_snowflake_benefits

\* Line 78: source_specific_benefits[:3] + [b for b in common_snowflake_benefits
\* if b not in source_specific_benefits][:4]
generate_business_value_add(src) ==
    Take(source_specific_benefits(src), 3) \o
    Take(SelectSeq(common_snowflake_benefits,
                   LAMBDA b : ~InList(b, source_specific_benefits(src))), 4)

\* The mutant of generate_risks: complexity Medium is extended as High is.
generate_risks_MediumExtendedToo(src, target_type, complexity) ==
    baseline_risks \o source_risks(src) \o
    (IF complexity \in {"High", "Medium"} THEN high_risks ELSE << >>)

\* Lines 82-129.
generate_risks(src, target_type, complexity) ==
    baseline_risks \o source_risks(src) \o
    (IF complexity = "High" THEN high_risks ELSE << >>)

\* Lines 131-178.
generate_recommendations(src, target_type, complexity) ==
    baseline_recommendations \o source_recommendations(src) \o
    (IF complexity = "High" THEN high_recommendations ELSE << >>)

\* Lines 180-215, with target_type = "snowflake" as every caller passes it.
calculate_migration_effort(src, objs) ==
    LET loop       == EffortLoop(Items(objs), [k \in {} |-> 0], 0)
        complexity == Complexity(loop.total_hours)
    IN  [total_hours        |-> loop.total_hours,
         complexity         |-> complexity,
         object_efforts     |-> loop.object_efforts,
         risks              |-> generate_risks(src, "snowflake", complexity),
         recommendations    |-> generate_recommendations(src, "snowflake", complexity),
         business_value_add |-> generate_business_value_add(src)]

NoEffort ==
    [total_hours |-> 0, complexity |-> "", object_efforts |-> [k \in {} |-> 0],
     risks |-> << >>, recommendations |-> << >>, business_value_add |-> << >>]

CalculateMigrationEffort ==
    /\ pc = "cme_start"
    /\ effort_result' = calculate_migration_effort(source_type, objects)
    /\ pc' = "cme_return"
    /\ UNCHANGED <<inputVars, connVars, closeVars, fetchArgs, fetchVars, spVars,
                   source_type, objects, docVars, uiVars>>

----------------------------------------------------------------------------
(* calculate_effort_sp                                                     *)

\* JSON values as json.loads yields them: an int, a str, None.
JsonInt(n) == [t |-> "int", v |-> n]
JsonStr    == [t |-> "str", v |-> 0]
JsonNull   == [t |-> "null", v |-> 0]

\* The value under a key whose content matters only by its type: a missing
\* key, null, a list, or a dictionary d from keys to JSON values.
JsonAbsent  == [t |-> "absent", d |-> [k \in {} |-> JsonNull]]
JsonNullVal == [t |-> "null", d |-> [k \in {} |-> JsonNull]]
JsonList    == [t |-> "list", d |-> [k \in {} |-> JsonNull]]
JsonEmptyList == [t |-> "emptylist", d |-> [k \in {} |-> JsonNull]]
JsonDict(d) == [t |-> "dict", d |-> d]

\* An analysis_results_json: whether it parses, whether it is an object, and
\* of an object the value under "total_objects" and the count keys at its root.
AnalysisJson(kind, total, root) == [json |-> kind, total_objects |-> total, root |-> root]
NoJson == AnalysisJson("object", JsonAbsent, [k \in {} |-> JsonNull])

\* The counts a procedure took from an analysis document: where from
\* ("total_objects", "root", or "none" when it gave up) and the value.
Selected(from, value) == [from |-> from, t |-> value.t, d |-> value.d]
NoSelection == Selected("none", JsonAbsent)

\* isinstance(analysis_results.get("tables"), int)
RootHasIntTables(a) == "tables" \in DOMAIN a.root /\ a.root["tables"].t = "int"

\* calculate_effort_sp lines 46-53: objects_counts.
objects_counts(a) ==
    IF a.total_objects.t = "dict" THEN Selected("total_objects", a.total_objects)
    ELSE IF RootHasIntTables(a) THEN Selected("root", JsonDict(a.root))
    ELSE NoSelection

\* What calculate_effort_sp returns: json.dumps of the estimate or of {"error": ...}.
CeEstimate(effort) == [how |-> "return", error |-> "", effort |-> effort]
CeError(msg)       == [how |-> "return", error |-> msg, effort |-> NoEffort]
NoCe               == [how |-> "none", error |-> "", effort |-> NoEffort]

\* Lines 57-68 and 76-78: calculate_migration_effort on the counts dictionary.
\* count * multiplier, or the addition that follows it, raises TypeError for
\* a count that is not a number; the last handler turns that into an error.
EstimateOrError(src, cells) ==
    IF \E k \in DOMAIN cells \cap DOMAIN EFFORT_MULTIPLIERS : cells[k].t # "int"
    THEN CeError("An unexpected error occurred in calculate_effort_sp")
    ELSE CeEstimate(calculate_migration_effort(src, [k \in DOMAIN cells |-> cells[k].v]))

\* The mutant of calculate_effort_sp: without the fallback of lines 48-50.
calculate_effort_sp_NoFallback(source_db_type, a) ==
    IF a.json = "malformed" THEN CeError("Invalid JSON in analysis_results_json")
    ELSE IF a.json = "nonobject"
         THEN CeError("An unexpected error occurred in calculate_effort_sp")
    ELSE IF a.total_objects.t # "dict"
         THEN CeError("Invalid analysis_results_json")
    ELSE EstimateOrError(source_db_type, a.total_objects.d)

\* Lines 42-78.
calculate_effort_sp(source_db_type, a) ==
    IF a.json = "malformed" THEN CeError("Invalid JSON in analysis_results_json")
    ELSE IF a.json = "nonobject"
         THEN CeError("An unexpected error occurred in calculate_effort_sp")
    ELSE IF a.total_objects.t # "dict"
         THEN IF "tables" \in DOMAIN a.root /\ a.root["tables"].t = "int"
              THEN EstimateOrError(source_db_type, a.root)
              ELSE CeError("Invalid analysis_results_json")
    ELSE EstimateOrError(source_db_type, a.total_objects.d)

CalculateEffortSp ==
    /\ pc = "ce_start"
    /\ ce_result' = calculate_effort_sp(db_type, analysis_results_json)
    /\ pc' = "ce_return"
    /\ UNCHANGED <<inputVars, connVars, closeVars, fetchArgs, fetchVars, spVars,
                   effortVars, analysis_results_json, effort_calculation_json,
                   template_string, doc_result, uiVars>>

----------------------------------------------------------------------------
(* generate_document_sp and its two Jinja2 filters                         *)

\* The value under "object_efforts": missing (Jinja2's Undefined), null, a
\* list, a dictionary d of effort entries, or a dictionary with an entry
\* that is not a dictionary.
EffortsAbsent  == [t |-> "absent", d |-> [k \in {} |-> 0]]
EffortsNull    == [t |-> "null", d |-> [k \in {} |-> 0]]
EffortsList    == [t |-> "list", d |-> [k \in {} |-> 0]]
EffortsDict(d) == [t |-> "dict", d |-> d]
EffortsBadDict == [t |-> "baddict", d |-> [k \in {"tables"} |-> 0]]

\* The value under "risks": missing, null, a string, or a list l of strings.
ItemsAbsent  == [t |-> "absent", l |-> << >>]
ItemsNull    == [t |-> "null", l |-> << >>]
ItemsStr     == [t |-> "str", l |-> << >>]
ItemsList(l) == [t |-> "list", l |-> l]

\* An effort_calculation_json.
EffortJson(kind, efforts, items) == [json |-> kind, object_efforts |-> efforts, risks |-> items]
NoEffortJson == EffortJson("object", EffortsAbsent, ItemsAbsent)

\* The lines of the effort table.
HeaderLine == [kind |-> "header", obj |-> "Object Type", count |-> 0,
               hours_per_object |-> 0, total_hours |-> 0]
RuleLine   == [kind |-> "rule", obj |-> "", count |-> 0,
               hours_per_object |-> 0, total_hours |-> 0]
RowLine(obj_type, effort_details) ==
    [kind |-> "row", obj |-> obj_type, count |-> effort_details.count,
     hours_per_object |-> effort_details.hours_per_object,
     total_hours |-> effort_details.total_hours]

\* str.capitalize() on the object types.
Capitalize(x) ==
    IF x = "tables" THEN "Tables" ELSE IF x = "views" THEN "Views"
    ELSE IF x = "procedures" THEN "Procedures"
    ELSE IF x = "functions" THEN "Functions" ELSE x

\* What a filter hands back: a sentinel text, or lines joined by newlines,
\* or an exception.
FilterText(text)   == [raised |-> FALSE, text |-> text, lines |-> << >>]
FilterLines(lines) == [raised |-> FALSE, text |-> "", lines |-> lines]
FilterRaised       == [raised |-> TRUE, text |-> "", lines |-> << >>]

\* Lines 26-28: the loop over object_efforts_dict.items().
RECURSIVE EffortRows(_, _)
EffortRows(items, lines) ==
    IF items = << >> THEN lines
    ELSE LET obj_type       == Head(items)[1]
             effort_details == Head(items)[2]
         IN  IF effort_details.count > 0
             THEN EffortRows(Tail(items),
                             Append(lines, RowLine(Capitalize(obj_type), effort_details)))
             ELSE EffortRows(Tail(items), lines)

\* The mutant of _format_object_efforts_filter: rows with count zero are kept.
_format_object_efforts_filter_KeepZero(object_efforts_dict) ==
    IF object_efforts_dict.t \notin {"dict", "baddict"} \/ DOMAIN object_efforts_dict.d = {}
    THEN FilterText("No specific object efforts available.")
    ELSE IF object_efforts_dict.t = "baddict" THEN FilterRaised
    ELSE FilterLines(<<HeaderLine, RuleLine>> \o
             [i \in 1..Len(Items(object_efforts_dict.d)) |->
                 RowLine(Capitalize(Items(object_efforts_dict.d)[i][1]),
                         Items(object_efforts_dict.d)[i][2])])

\* Lines 20-31.
_format_object_efforts_filter(object_efforts_dict) ==
    IF object_efforts_dict.t \notin {"dict", "baddict"} \/ DOMAIN object_efforts_dict.d = {}
    THEN FilterText("No specific object efforts available.")
    ELSE IF object_efforts_dict.t = "baddict" THEN FilterRaised
    ELSE LET lines == EffortRows(Items(object_efforts_dict.d), <<HeaderLine, RuleLine>>)
         IN  IF Len(lines) = 2
             THEN FilterText("No specific object efforts with count > 0 available.")
             ELSE FilterLines(lines)

\* The mutant of _format_list_filter: an empty list gives no line at all.
_format_list_filter_EmptyGivesNothing(items_list) ==
    IF items_list.t # "list"
    THEN FilterText("- Not applicable or no specific items provided.")
    ELSE FilterLines([i \in 1..Len(items_list.l) |-> "- " \o items_list.l[i]])

\* Lines 33-36.
_format_list_filter(items_list) ==
    IF items_list.l = << >> \/ items_list.t # "list"
    THEN FilterText("- Not applicable or no specific items provided.")
    ELSE FilterLines([i \in 1..Len(items_list.l) |-> "- " \o items_list.l[i]])

\* bool(x) of the value under "total_objects".
JsonTruthy(x) == x.t = "list" \/ (x.t = "dict" /\ DOMAIN x.d # {})

\* generate_document_sp lines 68-70: objects_found.
objects_found(a) ==
    LET got == IF a.total_objects.t = "absent"
               THEN JsonDict([k \in {} |-> JsonNull]) ELSE a.total_objects
    IN  IF ~JsonTruthy(got) /\ RootHasIntTables(a) THEN Selected("root", JsonDict(a.root))
        ELSE Selected("total_objects", got)

\* What generate_document_sp returns: the rendered document (here the
\* objects of its context and the two filtered parts of it) or
\* json.dumps({"error": ...}).
NoFilter == FilterText("")
DocRendered(objs, efforts, items) ==
    [how |-> "return", error |-> "", rendered |-> TRUE, objects |-> objs,
     efforts |-> efforts, risks |-> items]
DocError(msg) ==
    [how |-> "return", error |-> msg, rendered |-> FALSE, objects |-> NoSelection,
     efforts |-> NoFilter, risks |-> NoFilter]
DocRaised ==
    [how |-> "raise", error |-> "", rendered |-> FALSE, objects |-> NoSelection,
     efforts |-> NoFilter, risks |-> NoFilter]
NoDocument ==
    [how |-> "none", error |-> "", rendered |-> FALSE, objects |-> NoSelection,
     efforts |-> NoFilter, risks |-> NoFilter]

\* The templates of the model: one that does not compile, one whose render
\* raises a TemplateError, one without filters (the fallback of app.py line
\* 40), and one that pipes object_efforts and risks through the two filters.
TemplateStrings == {"syntax_error", "render_error", "plain", "filters"}

\* The mutant of generate_document_sp: only the two named exception types
\* are handled.
generate_document_sp_NoCatchAll(e, a, connection_json, template) ==
    IF e.json = "malformed" \/ a.json = "malformed" \/ connection_json = "malformed"
    THEN DocError("Invalid JSON input")
    ELSE IF a.json = "nonobject" \/ e.json = "nonobject" THEN DocRaised
    ELSE IF template \in {"syntax_error", "render_error"}
         THEN DocError("Jinja2 template error")
    ELSE IF template = "plain" THEN DocRendered(objects_found(a), NoFilter, NoFilter)
    ELSE LET efforts == _format_object_efforts_filter(e.object_efforts)
             items   == _format_list_filter(e.risks)
         IN  IF efforts.raised \/ items.raised THEN DocRaised
             ELSE DocRendered(objects_found(a), efforts, items)

\* Lines 61-109.  json.loads of the three documents, analysis_data.get on the
\* second, **effort_data on the first, then from_string and render.
generate_document_sp(e, a, connection_json, template) ==
    IF e.json = "malformed" \/ a.json = "malformed" \/ connection_json = "malformed"
    THEN DocError("Invalid JSON input")
    ELSE IF a.json = "nonobject" \/ e.json = "nonobject"
         THEN DocError("An unexpected error occurred in generate_document_sp")
    ELSE IF template \in {"syntax_error", "render_error"}
         THEN DocError("Jinja2 template error")
    ELSE IF template = "plain" THEN DocRendered(objects_found(a), NoFilter, NoFilter)
    ELSE LET efforts == _format_object_efforts_filter(e.object_efforts)
             items   == _format_list_filter(e.risks)
         IN  IF efforts.raised \/ items.raised
             THEN DocError("An unexpected error occurred in generate_document_sp")
             ELSE DocRendered(objects_found(a), efforts, items)

GenerateDocumentSp ==
    /\ pc = "gd_start"
    /\ doc_result' = generate_document_sp(effort_calculation_json, analysis_results_json,
                                          json_kind, template_string)
    /\ pc' = "gd_return"
    /\ UNCHANGED <<inputVars, connVars, closeVars, fetchArgs, fetchVars, spVars,
                   effortVars, analysis_results_json, ce_result,
                   effort_calculation_json, template_string, uiVars>>

----------------------------------------------------------------------------
(* Inputs and specifications                                               *)

JsonKinds == {"object", "malformed", "nonobject"}

MkParams(h, pt, d, sc, hp, ac) ==
    [host |-> h, port |-> pt, database |-> d, schema |-> sc, http_path |-> hp, account |-> ac]
NoParams == MkParams(Absent, PNone, Absent, Absent, Absent, Absent)

MkCreds(u, pw, tk, ac) ==
    [ok |-> TRUE, username |-> u, password |-> pw, token |-> tk, account |-> ac]

\* What the local triggers _LOCAL_<DBTYPE>_ of app.py resolve to (lines 96-128).
LocalCredentials(dbt) ==
    IF dbt \in {"postgresql", "oracle", "sqlserver", "teradata"}
    THEN MkCreds("user", "password", Absent, Absent)
    ELSE IF dbt = "databricks" THEN MkCreds(Absent, Absent, "token", Absent)
    ELSE IF dbt = "snowflake" THEN MkCreds("user", "password", Absent, "your_sf_source_account")
    ELSE CredFail

\* Every shape of credentials the three retrieval strategies can yield.
AllCredentials ==
    {CredFail} \cup
    {MkCreds(u, pw, tk, ac) : u \in {Absent, "user"}, pw \in {Absent, "password"},
                              tk \in {Absent, "token"},
                              ac \in {Absent, "", "cred_account"}}

PortInputs == {PNone, PInt(0), PInt(6000), PStr("6000"), PStr("abc")}

AllParams ==
    {MkParams(h, pt, d, sc, hp, ac) :
        h \in {Absent, "host"}, pt \in PortInputs, d \in {Absent, "db"},
        sc \in {None, "Sch"}, hp \in {Absent, "/sql/1.0"},
        ac \in {Absent, "", "param_account"}}

AnalyzeParams ==
    {MkParams(h, PInt(6000), d, sc, "/sql/1.0", "param_account") :
        h \in {Absent, "host"}, d \in {Absent, "db"}, sc \in {None, "Sch"}}

\* The sample counts of the estimator's inputs.
CountSamples == {0, 2, 3, 5, 10, 20, 50, 99, 100}

AllObjects ==
    UNION {[D -> CountSamples] : D \in SUBSET ObjectTypes} \cup
    UNION {[D \cup {"sequences"} -> CountSamples \cap {0, 5}] : D \in SUBSET ObjectTypes}

\* The count dictionaries of the analysis documents: each known key missing,
\* an int, null or a string.
CountCells == {JsonInt(0), JsonInt(5), JsonNull, JsonStr}
TotalObjectsInputs ==
    {JsonAbsent, JsonNullVal, JsonList, JsonEmptyList} \cup
    {JsonDict(d) : d \in UNION {[D -> CountCells] : D \in SUBSET ObjectTypes}}
RootInputs ==
    UNION {[D -> {JsonInt(3), JsonStr}] : D \in SUBSET {"tables", "views"}}
AnalysisJsonInputs ==
    {AnalysisJson("malformed", JsonAbsent, [k \in {} |-> JsonNull]),
     AnalysisJson("nonobject", JsonAbsent, [k \in {} |-> JsonNull])} \cup
    {AnalysisJson("object", t, r) : t \in TotalObjectsInputs, r \in RootInputs}

\* The effort documents: object_efforts as calculate_migration_effort builds
\* it for counts 0..2, or not a dictionary of entries; risks a list or not.
EffortEntry(obj_type, count) ==
    [count |-> count, hours_per_object |-> EFFORT_MULTIPLIERS[obj_type],
     total_hours |-> count * EFFORT_MULTIPLIERS[obj_type]]
EffortsInputs ==
    {EffortsAbsent, EffortsNull, EffortsList, EffortsBadDict} \cup
    {EffortsDict([k \in D |-> EffortEntry(k, c[k])]) :
        D \in SUBSET ObjectTypes, c \in [ObjectTypes -> 0..2]}
ItemsInputs ==
    {ItemsAbsent, ItemsNull, ItemsStr} \cup
    {ItemsList(l) : l \in {<< >>, <<"a">>, <<"a", "b">>, <<"b", "a">>}}
EffortJsonInputs ==
    {EffortJson("object", oe, it) : oe \in EffortsInputs, it \in ItemsInputs}
EffortJsonKinds ==
    {EffortJson(k, EffortsAbsent, ItemsAbsent) : k \in JsonKinds}

IdleDocument ==
    /\ analysis_results_json = NoJson /\ ce_result = NoCe
    /\ effort_calculation_json = NoEffortJson /\ template_string = ""
    /\ doc_result = NoDocument

IdleConnector ==
    /\ conn_ret = None /\ conn_log = "" /\ connect_args = NoArgs /\ connectCalls = 0
    /\ connCloseCalls = 0 /\ connClosedBy = ""

IdleFetch ==
    /\ cursor = "none" /\ cursorCloseCalls = 0
    /\ counts = ZeroCounts /\ schema_counts = ZeroCounts
    /\ schemas_summary_list = <<>> /\ schemas_to_query = <<>>
    /\ si = 0 /\ qi = 1 /\ target_schema_oracle = None
    /\ queriesIssued = 0 /\ failedAt = 0 /\ obtained = <<>>
    /\ fetch_result = NoResult

IdleProcedure ==
    /\ sp_retval = NoDoc /\ sp_result = NoDoc /\ analysis_res = NoneRes

IdleEffort ==
    /\ source_type = "" /\ objects = [k \in {} |-> 0] /\ effort_result = NoEffort

----------------------------------------------------------------------------
(* app.py: the page, its session state and its three buttons               *)

\* The entries of source_db_types (line 187) the model's select box offers.
UiKinds == {"postgresql", "databricks", "mysql"}

\* str.upper() on the kinds.
UpperKind(t) ==
    IF t = "postgresql" THEN "POSTGRESQL" ELSE IF t = "databricks" THEN "DATABRICKS"
    ELSE IF t = "mysql" THEN "MYSQL" ELSE t

\* Line 195-197: port_default_map.get(db_type_input, 0).
port_default_map ==
    [oracle |-> 1521, sqlserver |-> 1433, postgresql |-> 5432, mysql |-> 3306,
     teradata |-> 1025]
PortDefault(t) == IF t \in DOMAIN port_default_map THEN port_default_map[t] ELSE 0

\* Line 229: secret_name_default.
SecretDefault(t) == "_LOCAL_" \o UpperKind(t) \o "_"

\* The connection_params dictionary of lines 259-271.
UiParams(h, pt, d, sc, sn, hp) ==
    [host |-> h, port |-> pt, database |-> d, schema |-> sc, secret_name |-> sn,
     http_path |-> hp]
NoUiParams == UiParams(Absent, 0, Absent, Absent, Absent, Absent)

\* st.session_state.connection_details: {} at first, then {"dbType": ...,
\* **connection_params}.
Details(dbType, p) == [dbType |-> dbType, params |-> p]
NoDetails == Details(Absent, NoUiParams)

\* What the three result keys of the session state hold: None or a value.
NoEffortRes == [isNone |-> TRUE, effort |-> NoEffort, analysis |-> NoDoc]
SomeEffort(effort, analysis_result) ==
    [isNone |-> FALSE, effort |-> effort, analysis |-> analysis_result]
NoGenerated ==
    [isNone |-> TRUE, text |-> NoDocument, effort |-> NoEffort, analysis |-> NoDoc]
Generated(text, effort, analysis_result) ==
    [isNone |-> FALSE, text |-> text, effort |-> effort, analysis |-> analysis_result]

\* What a session-state key holds after st.session_state[key] = None.
NoneOf(key) ==
    IF key = "analysis_result" THEN NoneRes
    ELSE IF key = "effort_result" THEN NoEffortRes
    ELSE IF key = "generated_document" THEN NoGenerated
    ELSE None

\* The mutant of clear_downstream_state: only the first key is cleared.
clear_downstream_state_FirstKeyOnly(ss, state_keys_to_clear) ==
    [[k \in DOMAIN ss |->
        IF k \in state_keys_to_clear \cap {"analysis_result"} THEN NoneOf(k) ELSE ss[k]]
     EXCEPT !.current_step = 1]

\* Lines 177-181.
clear_downstream_state(ss, state_keys_to_clear) ==
    [[k \in DOMAIN ss |-> IF k \in state_keys_to_clear THEN NoneOf(k) ELSE ss[k]]
     EXCEPT !.current_step = 1]

\* The widgets with on_change = clear_downstream_state and the keys each one
\* passes (lines 189-234).
InputKeys == {"db_type_input", "host_input", "port_input", "database_input",
              "schema_input", "dbx_http_path", "secret_name_input"}
KeysToClear(key) ==
    {"analysis_result", "effort_result", "generated_document"} \cup
    (IF key = "db_type_input" THEN {"dbx_http_path"} ELSE {})

\* The values the user can give a widget.
InputValues(key) ==
    IF key = "db_type_input" THEN UiKinds
    ELSE IF key = "port_input" THEN {0, 6000}
    ELSE IF key = "host_input" THEN {"", "host"}
    ELSE IF key = "database_input" THEN {"", "db"}
    ELSE IF key = "schema_input" THEN {"", "Sch"}
    ELSE IF key = "dbx_http_path" THEN {"", "/sql/1.0"}
    ELSE {""} \cup {SecretDefault(t) : t \in UiKinds}

\* Lines 213-227: the widgets drawn only for one kind.
Rendered(ss, key) == key = "dbx_http_path" => ss.db_type_input = "databricks"

\* Lines 126-161 and the first run of the page.
InitialSessionState ==
    [connection_details |-> NoDetails,
     analysis_result    |-> NoneRes,
     effort_result      |-> NoEffortRes,
     generated_document |-> NoGenerated,
     current_step       |-> 1,
     db_type_input      |-> "postgresql",
     host_input         |-> "",
     port_input         |-> PortDefault("postgresql"),
     database_input     |-> "",
     schema_input       |-> "",
     dbx_http_path      |-> "",
     secret_name_input  |-> SecretDefault("postgresql")]

\* The last user action: which one, whether the handler stopped at a
\* validation warning, whether it called its procedure and with what.
UiAction(action, stopped, called, source_db_type, p) ==
    [action |-> action, stopped |-> stopped, called |-> called,
     source_db_type |-> source_db_type, connection_params |-> p]
NoUiAction == UiAction("", FALSE, FALSE, "", NoUiParams)

\* A widget changes: Streamlit stores the value, runs the callback and
\* reruns the page.  The port and secret-name widgets are declared with a
\* value that depends on the kind (lines 197-198, 229-231), so a change of
\* kind either keeps what they held or resets them to the new default.
EditInput ==
    /\ pc = "ui"
    /\ \E key \in InputKeys :
         /\ Rendered(session_state, key)
         /\ \E v \in InputValues(key) :
              /\ v # session_state[key]
              /\ LET changed == [session_state EXCEPT ![key] = v]
                     cleared == clear_downstream_state(changed, KeysToClear(key))
                 IN  IF key = "db_type_input"
                     THEN \E pt \in {cleared.port_input, PortDefault(v)},
                             sn \in {cleared.secret_name_input, SecretDefault(v)} :
                            session_state' = [cleared EXCEPT !.port_input = pt,
                                                             !.secret_name_input = sn]
                     ELSE session_state' = cleared
    /\ ui_last' = UiAction("edit", FALSE, FALSE, "", NoUiParams)
    /\ UNCHANGED <<pc, inputVars, connVars, closeVars, fetchArgs, fetchVars, spVars,
                   effortVars, docVars>>

\* The connection parameters as get_source_db_connection reads them.
ConnectorParams(p) ==
    MkParams(p.host, PInt(p.port), p.database, p.schema, p.http_path, Absent)

\* The analysis documents a successful count can hand back to the page.
UiCounts == {[tables |-> 1, views |-> 0, procedures |-> 0, functions |-> 0],
             [tables |-> 1, views |-> 1, procedures |-> 1, functions |-> 1]}
UiAnalysisDocs == {CountsDoc(c, <<SummaryEntry("public", c)>>) : c \in UiCounts}

\* Lines 44-67: what call_analyze_database_sp can return: None, or, when the
\* connector gets as far as its driver, an analysis document.
call_analyze_database_sp(source_db_type, p) ==
    {NoneRes} \cup
    (IF \E cred \in {CredFail, LocalCredentials(source_db_type)} :
            BeforeConnect(source_db_type, cred, ConnectorParams(p)).go
     THEN {SomeRes(d) : d \in UiAnalysisDocs} ELSE {})

\* json.dumps of an analysis document, as the two other procedures parse it.
ToAnalysisJson(doc) ==
    AnalysisJson("object",
                 JsonDict([k \in ObjectTypes |-> JsonInt(doc.total_objects[k])]),
                 [k \in {} |-> JsonNull])

\* json.dumps of an estimate, as generate_document_sp parses it.
ToEffortJson(effort) ==
    EffortJson("object", EffortsDict(effort.object_efforts), ItemsList(effort.risks))

\* Lines 69-90; raised is whether the call itself raised.
call_calculate_effort_sp(raised, source_db_type, analysis_results) ==
    LET result == calculate_effort_sp(source_db_type, ToAnalysisJson(analysis_results))
    IN  IF raised \/ result.error # "" THEN NoEffortRes
        ELSE SomeEffort(result.effort, analysis_results)

\* Lines 92-123; raised is whether the call itself raised.
call_generate_document_sp(raised, template, effort_results, analysis_results) ==
    LET document_md == generate_document_sp(ToEffortJson(effort_results),
                           ToAnalysisJson(analysis_results), "object", template)
    IN  IF raised \/ document_md.how # "return" \/ document_md.error # "" THEN NoGenerated
        ELSE Generated(document_md, effort_results, analysis_results)

\* Lines 236-287: the button "1. Analyze Database".
PressAnalyze ==
    /\ pc = "ui"
    /\ LET ss == session_state
           current_db_type == ss.db_type_input
           required == /\ Truthy(current_db_type) /\ Truthy(ss.host_input)
                       /\ ss.port_input # 0 /\ Truthy(ss.database_input)
                       /\ Truthy(ss.secret_name_input)
           conn_params ==
               UiParams(ss.host_input, ss.port_input, ss.database_input,
                        IF Truthy(ss.schema_input) THEN ss.schema_input ELSE None,
                        ss.secret_name_input,
                        IF current_db_type = "Databricks" THEN ss.dbx_http_path ELSE Absent)
           reset == [ss EXCEPT !.analysis_result = NoneRes,
                               !.effort_result = NoEffortRes,
                               !.generated_document = NoGenerated,
                               !.connection_details =
                                    Details(current_db_type, conn_params)]
       IN  IF (current_db_type = "Databricks" /\ ~Truthy(ss.dbx_http_path)) \/ ~required
           THEN /\ session_state' = ss
                /\ ui_last' = UiAction("analyze", TRUE, FALSE, current_db_type, NoUiParams)
           ELSE \E returned \in call_analyze_database_sp(current_db_type, conn_params) :
                  /\ session_state' =
                        IF returned.isNone THEN reset
                        ELSE [reset EXCEPT !.analysis_result = returned,
                                           !.current_step = 2]
                  /\ ui_last' = UiAction("analyze", FALSE, TRUE, current_db_type,
                                         conn_params)
    /\ UNCHANGED <<pc, inputVars, connVars, closeVars, fetchArgs, fetchVars, spVars,
                   effortVars, docVars>>

\* Lines 290-304: the button "2. Calculate Migration Effort", drawn while
\* analysis_result is set.
PressCalculate ==
    /\ pc = "ui"
    /\ ~session_state.analysis_result.isNone
    /\ \E raised \in BOOLEAN :
         LET ss == session_state
             dbType == GetDefault(ss.connection_details.dbType, "unknown")
             effort_res == call_calculate_effort_sp(raised, dbType, ss.analysis_result.doc)
         IN  /\ session_state' =
                    IF effort_res.isNone THEN ss
                    ELSE [ss EXCEPT !.effort_result = effort_res,
                                    !.generated_document = NoGenerated,
                                    !.current_step = 3]
             /\ ui_last' = UiAction("calculate", FALSE, TRUE, dbType, NoUiParams)
    /\ UNCHANGED <<pc, inputVars, connVars, closeVars, fetchArgs, fetchVars, spVars,
                   effortVars, docVars>>

\* Lines 309 and 335-345: the button "3. Generate Migration Strategy
\* Document", drawn while effort_result is set.
PressGenerate ==
    /\ pc = "ui"
    /\ ~session_state.effort_result.isNone
    /\ \E raised \in BOOLEAN, template \in {"plain", "filters"} :
         LET ss == session_state
             dbType == GetDefault(ss.connection_details.dbType, "unknown")
             doc_md == call_generate_document_sp(raised, template,
                           ss.effort_result.effort, ss.analysis_result.doc)
         IN  /\ session_state' =
                    IF doc_md.isNone THEN ss
                    ELSE [ss EXCEPT !.generated_document = doc_md]
             /\ ui_last' = UiAction("generate", FALSE, TRUE, dbType, NoUiParams)
    /\ UNCHANGED <<pc, inputVars, connVars, closeVars, fetchArgs, fetchVars, spVars,
                   effortVars, docVars>>

IdleUi == session_state = InitialSessionState /\ ui_last = NoUiAction

\* A request: analyze_database_sp called as app.py calls it, or
\* fetch_object_counts called directly.
Init ==
    /\ entry \in {"analyze_database_sp", "fetch_object_counts",
                  "calculate_effort_sp", "generate_document_sp"}
    /\ IF entry = "analyze_database_sp"
       THEN /\ db_type \in SourceDbTypes
            /\ pc = "ad_start"
            /\ json_kind \in JsonKinds
            /\ credentials \in {CredFail, LocalCredentials(db_type)}
            /\ connection_params \in AnalyzeParams
            /\ conn = "none"
            /\ db_name = None
            /\ schema_name = None
            /\ IdleDocument
       ELSE IF entry = "fetch_object_counts"
       THEN /\ db_type \in SourceDbTypes
            /\ pc = "fo_start"
            /\ json_kind = "object"
            /\ credentials = CredFail
            /\ connection_params = NoParams
            /\ conn \in {"none", "open"}
            /\ db_name \in (IF db_type \in {"teradata", "databricks", "snowflake"}
                             THEN {None, "db"} ELSE {"db"})
            /\ schema_name \in {None, "Sch"}
            /\ IdleDocument
       ELSE /\ db_type \in {"oracle", "mysql"}
            /\ credentials = CredFail
            /\ connection_params = NoParams
            /\ conn = "none"
            /\ db_name = None
            /\ schema_name = None
            /\ ce_result = NoCe
            /\ doc_result = NoDocument
            /\ IF entry = "calculate_effort_sp"
               THEN /\ pc = "ce_start"
                    /\ json_kind = "object"
                    /\ analysis_results_json \in AnalysisJsonInputs
                    /\ effort_calculation_json = NoEffortJson
                    /\ template_string = ""
               ELSE /\ pc = "gd_start"
                    /\ \/ /\ json_kind = "object"
                          /\ analysis_results_json = NoJson
                          /\ effort_calculation_json \in EffortJsonInputs
                          /\ template_string = "filters"
                       \/ /\ json_kind = "object"
                          /\ analysis_results_json \in AnalysisJsonInputs
                          /\ effort_calculation_json = NoEffortJson
                          /\ template_string = "plain"
                       \/ /\ json_kind \in JsonKinds
                          /\ analysis_results_json \in
                                {AnalysisJson(k, JsonAbsent, [x \in {} |-> JsonNull]) :
                                    k \in JsonKinds}
                          /\ effort_calculation_json \in EffortJsonKinds
                          /\ template_string \in TemplateStrings
    /\ IdleConnector /\ IdleFetch /\ IdleProcedure /\ IdleEffort /\ IdleUi

Next ==
    \/ AnalyzeStart
    \/ GetConnStart
    \/ GetConnDriver
    \/ AnalyzeAfterConnect
    \/ FetchStart
    \/ FetchPgSchemas
    \/ FetchPgCount
    \/ FetchOraSchema
    \/ FetchCount
    \/ FetchFinally
    \/ AnalyzeAfterFetch
    \/ AnalyzeFinally
    \/ CallAnalyzeReturn
    \/ CalculateEffortSp
    \/ GenerateDocumentSp

Spec == Init /\ [][Next]_vars

\* A direct call of get_source_db_connection.
InitConn ==
    /\ entry = "get_source_db_connection"
    /\ pc = "gc_start"
    /\ db_type \in SourceDbTypes
    /\ json_kind = "object"
    /\ credentials \in AllCredentials
    /\ connection_params \in AllParams
    /\ conn = "none"
    /\ db_name = None
    /\ schema_name = None
    /\ IdleConnector /\ IdleFetch /\ IdleProcedure /\ IdleEffort /\ IdleDocument
    /\ IdleUi

NextConn ==
    \/ GetConnStart
    \/ GetConnDriver

SpecConn == InitConn /\ [][NextConn]_vars

\* A call of calculate_migration_effort.
InitEffort ==
    /\ entry = "calculate_migration_effort"
    /\ pc = "cme_start"
    /\ db_type = "postgresql"
    /\ json_kind = "object"
    /\ credentials = CredFail
    /\ connection_params = NoParams
    /\ conn = "none"
    /\ db_name = None
    /\ schema_name = None
    /\ IdleConnector /\ IdleFetch /\ IdleProcedure /\ IdleDocument /\ IdleUi
    /\ source_type \in SourceDbTypes
    /\ objects \in AllObjects
    /\ effort_result = NoEffort

NextEffort ==
    \/ CalculateMigrationEffort

SpecEffort == InitEffort /\ [][NextEffort]_vars

\* The page of app.py in one browser session: any sequence of edits and
\* button presses.
InitApp ==
    /\ entry = "app.py"
    /\ pc = "ui"
    /\ db_type = "postgresql"
    /\ json_kind = "object"
    /\ credentials = CredFail
    /\ connection_params = NoParams
    /\ conn = "none"
    /\ db_name = None
    /\ schema_name = None
    /\ IdleConnector /\ IdleFetch /\ IdleProcedure /\ IdleEffort /\ IdleDocument
    /\ session_state = InitialSessionState
    /\ ui_last = NoUiAction

NextApp ==
    \/ EditInput
    \/ PressAnalyze
    \/ PressCalculate
    \/ PressGenerate

SpecApp == InitApp /\ [][NextApp]_vars

----------------------------------------------------------------------------
(* Properties                                                              *)

\* count x multiplier of one object type of the fixed table, 0 when the
\* dictionary does not have the type.
HoursFor(objs, t, m) == IF t \in DOMAIN objs THEN objs[t] * m ELSE 0

\* C1: calculate_migration_effort returns total_hours = the sum of count x
\* multiplier over the object types that are both in the input and in the
\* table {tables:2, views:1, procedures:4, functions:3}; object_efforts has
\* exactly one entry {count, hours_per_object, total_hours = count x
\* multiplier} for each such type and none for another key; total_hours is
\* the sum of the entries' total_hours; {100, 50, 20, 10} gives 360.
C1_TotalHoursIsSumOfEfforts ==
    pc = "cme_return" =>
        LET r  == effort_result
            oe == r.object_efforts
            m  == [tables |-> 2, views |-> 1, procedures |-> 4, functions |-> 3]
            EntryHours(t) == IF t \in DOMAIN oe THEN oe[t].total_hours ELSE 0
        IN  /\ r.total_hours = HoursFor(objects, "tables", 2) + HoursFor(objects, "views", 1)
                             + HoursFor(objects, "procedures", 4) + HoursFor(objects, "functions", 3)
            /\ DOMAIN oe = DOMAIN objects \cap {"tables", "views", "procedures", "functions"}
            /\ \A t \in DOMAIN oe :
                   oe[t] = [count |-> objects[t], hours_per_object |-> m[t],
                            total_hours |-> objects[t] * m[t]]
            /\ r.total_hours = EntryHours("tables") + EntryHours("views")
                             + EntryHours("procedures") + EntryHours("functions")
            /\ (objects = [tables |-> 100, views |-> 50, procedures |-> 20, functions |-> 10]
                   => r.total_hours = 360)

\* The example of C1 has been computed, and a dictionary with a key outside
\* the table exists among the inputs.
C1_Witness ==
    /\ pc = "cme_return"
    /\ objects = [tables |-> 100, views |-> 50, procedures |-> 20, functions |-> 10]
    /\ effort_result.total_hours = 360
    /\ DOMAIN effort_result.object_efforts = ObjectTypes

TierRank(c) == IF c = "Low" THEN 0 ELSE IF c = "Medium" THEN 1 ELSE 2

RECURSIVE SumOfEntries(_)
SumOfEntries(lst) ==
    IF lst = <<>> THEN ZeroCounts
    ELSE LET rest == SumOfEntries(Tail(lst))
             h    == Head(lst)
         IN  [tables     |-> h.tables + rest.tables,
              views      |-> h.views + rest.views,
              procedures |-> h.procedures + rest.procedures,
              functions  |-> h.functions + rest.functions]

EntryCounts(h) ==
    [tables |-> h.tables, views |-> h.views, procedures |-> h.procedures,
     functions |-> h.functions]

\* fetch_object_counts has returned a record built from a connection.
FetchReturned == fetch_result.how = "return" /\ conn # "none"

\* C3: every record fetch_object_counts returns for postgresql, with or
\* without an error field: with more than one schemas_summary entry,
\* total_objects is the field-wise sum of the entries; with exactly one
\* schema targeted and found, total_objects is that single entry's counts.
C3_PgTotalsMatchSummary ==
    (FetchReturned /\ db_type = "postgresql") =>
        LET d == fetch_result.doc
        IN  /\ Len(d.schemas_summary) > 1 =>
                   d.total_objects = SumOfEntries(d.schemas_summary)
            /\ (Truthy(schema_name) /\ Len(schemas_to_query) = 1
                  /\ Len(d.schemas_summary) = 1) =>
                   d.total_objects = EntryCounts(d.schemas_summary[1])

\* An error-bearing postgresql record with two summarised schemas and
\* non-zero totals: the third schema's counting failed.
C3_Witness ==
    /\ FetchReturned /\ db_type = "postgresql"
    /\ "error" \in fetch_result.doc.keys
    /\ Len(fetch_result.doc.schemas_summary) = 2
    /\ fetch_result.doc.total_objects.tables = 2
    /\ fetch_result.doc.total_objects.functions = 1

\* C4: every error-bearing record of fetch_object_counts and every
\* error-bearing JSON document of analyze_database_sp still carries
\* total_objects with its four count fields.
C4_ErrorKeepsTotalObjects ==
    /\ (fetch_result.how = "return" /\ "error" \in fetch_result.doc.keys) =>
           /\ "total_objects" \in fetch_result.doc.keys
           /\ DOMAIN fetch_result.doc.total_objects = ObjectTypes
    /\ (pc \in {"ad_return", "app_done"} /\ "error" \in sp_result.keys) =>
           /\ "total_objects" \in sp_result.keys
           /\ DOMAIN sp_result.total_objects = ObjectTypes

\* The fetch_object_counts half of C4 alone.
C4_FetchErrorKeepsTotalObjects ==
    (fetch_result.how = "return" /\ "error" \in fetch_result.doc.keys) =>
        /\ "total_objects" \in fetch_result.doc.keys
        /\ DOMAIN fetch_result.doc.total_objects = ObjectTypes

\* Sum of the values the successful count queries returned for one object type.
RECURSIVE ObtainedSum(_, _)
ObtainedSum(got, t) ==
    IF got = <<>> THEN 0
    ELSE (IF Head(got).type = t THEN Head(got).value ELSE 0) + ObtainedSum(Tail(got), t)

\* C5: when the k-th catalog query raises, no later query is issued and the
\* returned record has an error field and a total_objects that holds every
\* count the earlier queries obtained.
C5_FailureKeepsObtainedCounts ==
    (FetchReturned /\ failedAt > 0) =>
        /\ queriesIssued = failedAt
        /\ "error" \in fetch_result.doc.keys
        /\ \A t \in ObjectTypes :
               fetch_result.doc.total_objects[t] = ObtainedSum(obtained, t)

\* C5 for the kinds other than postgresql.
C5_ExceptPostgresql ==
    db_type # "postgresql" => C5_FailureKeepsObtainedCounts

\* C6: after fetch_object_counts returned counts together with an error,
\* analyze_database_sp hands those counts forward beside the error and
\* call_analyze_database_sp passes them on to the effort stage.
C6_PartialCountsReachEffortStage ==
    (pc = "app_done" /\ fetch_result.how = "return" /\ "error" \in fetch_result.doc.keys) =>
        /\ "total_objects" \in sp_result.keys
        /\ sp_result.total_objects = fetch_result.doc.total_objects
        /\ ~analysis_res.isNone
        /\ analysis_res.doc.total_objects = fetch_result.doc.total_objects

\* C7: in analyze_database_sp a connection that get_source_db_connection
\* returned is closed exactly once, by analyze_database_sp, before the
\* procedure returns, on every exit path; no connection is closed twice; and
\* the value returned is the value of the return statement whether or not
\* close raised.
C7_ConnectionClosedExactlyOnce ==
    entry = "analyze_database_sp" =>
        /\ connCloseCalls <= 1
        /\ pc \in {"ad_return", "app_done"} =>
               /\ sp_result = sp_retval
               /\ conn_ret # None =>
                      (connCloseCalls = 1 /\ connClosedBy = "analyze_database_sp")
               /\ conn_ret = None => connCloseCalls = 0

\* analyze_database_sp returned after fetch_object_counts raised, and its
\* one close call failed.
C7_Witness ==
    /\ entry = "analyze_database_sp"
    /\ pc = "ad_return"
    /\ fetch_result.how = "raise"
    /\ connCloseCalls = 1
    /\ conn = "open"
    /\ "error" \in sp_result.keys

\* The positions inside fetch_object_counts and right after it.
FetchPositions ==
    {"fo_pg_schemas", "fo_pg_count", "fo_ora_schema", "fo_count", "fo_finally", "fo_return"}

\* C8: fetch_object_counts never closes the connection it is given: on every
\* return path the connection is still open, and the cursor it created, and
\* nothing else, has had close called on it.
C8_FetchLeavesConnectionOpen ==
    (pc \in FetchPositions /\ conn # "none") =>
        /\ conn = "open"
        /\ connCloseCalls = 0
        /\ pc = "fo_return" =>
               cursorCloseCalls = (IF cursor = "none" THEN 0 ELSE 1)

\* fetch_object_counts returned an error record after its third query raised.
C8_Witness ==
    /\ pc = "fo_return"
    /\ FetchReturned
    /\ failedAt = 3
    /\ "error" \in fetch_result.doc.keys
    /\ conn = "open"
    /\ cursor = "closed"

\* The fields C9 lists for the kind, one of them missing or falsy.
ListedFieldMissing ==
    IF db_type = "databricks"
    THEN ~Truthy(credentials.token) \/ ~Truthy(connection_params.http_path)
    ELSE IF db_type = "snowflake"
    THEN \/ ~(Truthy(credentials.account) \/ Truthy(connection_params.account))
         \/ ~Truthy(connection_params.database)
    ELSE \/ ~Truthy(credentials.username) \/ ~Truthy(credentials.password)
         \/ ~Truthy(connection_params.host) \/ ~Truthy(connection_params.database)

\* C9: get_source_db_connection makes no connect call when credential
\* resolution fails or a listed field is missing (databricks: token,
\* http_path; snowflake: account, database; others: username, password, host,
\* database), and in every other case makes exactly one connect call.
C9_ConnectOnlyAfterListedFields ==
    pc = "gc_return" =>
        connectCalls = (IF ~credentials.ok \/ ListedFieldMissing THEN 0 ELSE 1)

\* The fields the validation of get_source_db_connection requires for the
\* kind, one of them missing or falsy.
RequiredFieldMissing ==
    IF db_type = "databricks"
    THEN \/ ~Truthy(credentials.token) \/ ~Truthy(connection_params.host)
         \/ ~Truthy(connection_params.http_path)
    ELSE \/ ~Truthy(credentials.username) \/ ~Truthy(credentials.password)
         \/ ~Truthy(connection_params.database)
         \/ IF db_type = "snowflake"
            THEN ~(Truthy(credentials.account) \/ Truthy(connection_params.account))
            ELSE ~Truthy(connection_params.host)

\* The port is given and is neither an integer nor a decimal string.
PortNotAnInteger ==
    /\ PortTruthy(connection_params.port)
    /\ connection_params.port.t = "str"
    /\ ~IsDecimal(connection_params.port.s)

\* C9 as the code has it: no connect call is made when credential resolution
\* fails, when the port is not an integer, when a required field is missing
\* (databricks: token, host, http_path; snowflake: username, password,
\* account, database; others: username, password, host, database), when the
\* kind is unsupported, or when building the Oracle DSN fails; in every other
\* case exactly one connect call is made, and none is ever repeated.
C9_ConnectOnlyAfterValidation ==
    /\ connectCalls <= 1
    /\ pc = "gc_return" =>
           connectCalls =
               (IF \/ ~credentials.ok
                   \/ PortNotAnInteger
                   \/ RequiredFieldMissing
                   \/ db_type \notin SupportedKinds
                   \/ conn_log = "connection error: makedsn"
                THEN 0 ELSE 1)

\* A databricks connect that the driver rejected: one call, None returned.
C9_Witness ==
    /\ pc = "gc_return"
    /\ db_type = "databricks"
    /\ connectCalls = 1
    /\ conn_ret = None
    /\ conn_log = "connection error: connect"

\* C10: for a kind outside the five supported ones get_source_db_connection
\* ends in the unsupported-kind outcome whatever the other parameters are,
\* and returns something other than None, the value a credential failure, a
\* validation failure and a driver failure return.
C10_UnsupportedKindIsDistinct ==
    (pc = "gc_return" /\ db_type \notin SupportedKinds) =>
        /\ conn_log = "Unsupported database type for connection"
        /\ conn_ret # None

\* Every outcome of get_source_db_connection but a successful connect
\* returns None.
C10_EveryFailureReturnsNone ==
    (pc = "gc_return" /\ conn_log # "Successfully connected") => conn_ret = None

Entries(list) == {list[i] : i \in 1..Len(list)}

\* C15: for every source kind the list of generate_business_value_add has at
\* most 7 entries, no two of them equal, and is at most 3 entries of the
\* kind's own list followed by at most 4 entries of the common list that do
\* not occur in the kind's own list.
C15_BusinessValueCappedAndDistinct ==
    pc = "cme_return" =>
        LET bv       == effort_result.business_value_add
            specific == Entries(source_specific_benefits(source_type))
            common   == Entries(common_snowflake_benefits)
        IN  /\ Len(bv) <= 7
            /\ \A i, j \in 1..Len(bv) : bv[i] = bv[j] => i = j
            /\ \E k \in 0..3 :
                 /\ k <= Len(bv)
                 /\ Len(bv) - k <= 4
                 /\ \A i \in 1..k : bv[i] \in specific
                 /\ \A i \in (k + 1)..Len(bv) : bv[i] \in common \ specific

\* An unrecognized kind: its two entries followed by four common ones.
C15_Witness ==
    /\ pc = "cme_return"
    /\ source_type = "mysql"
    /\ Len(effort_result.business_value_add) = 6
    /\ effort_result.business_value_add[3] = common_snowflake_benefits[1]

\* The kinds C16 counts as recognized.
KindsWithOwnEntries == {"oracle", "sqlserver", "postgresql", "teradata", "databricks"}

\* C16: for a source kind outside oracle, sqlserver, postgresql, teradata and
\* databricks the risks and the recommendations hold only baseline entries
\* and High-tier additions, and business_value_add holds only entries of the
\* common list.
C16_UnrecognizedKindGetsBaselineOnly ==
    (pc = "cme_return" /\ source_type \notin KindsWithOwnEntries) =>
        /\ Entries(effort_result.risks) \subseteq
               Entries(baseline_risks) \cup Entries(high_risks)
        /\ Entries(effort_result.recommendations) \subseteq
               Entries(baseline_recommendations) \cup Entries(high_recommendations)
        /\ Entries(effort_result.business_value_add) \subseteq
               Entries(common_snowflake_benefits)

\* The risks and recommendations part of C16 alone.
C16_RisksAndRecommendationsBaselineOnly ==
    (pc = "cme_return" /\ source_type \notin KindsWithOwnEntries) =>
        /\ Entries(effort_result.risks) \subseteq
               Entries(baseline_risks) \cup Entries(high_risks)
        /\ Entries(effort_result.recommendations) \subseteq
               Entries(baseline_recommendations) \cup Entries(high_recommendations)

\* The failures analyze_database_sp can meet: a connection document that is
\* not a JSON object, no connection, a raising or error-bearing count.
AnalyzeFailed ==
    \/ json_kind # "object"
    \/ conn_ret = None
    \/ fetch_result.how = "raise"
    \/ "error" \in fetch_result.doc.keys

\* The failures generate_document_sp can meet.
DocumentFailed ==
    \/ "malformed" \in {effort_calculation_json.json, analysis_results_json.json, json_kind}
    \/ "nonobject" \in {effort_calculation_json.json, analysis_results_json.json}
    \/ template_string \in {"syntax_error", "render_error"}
    \/ template_string = "filters" /\ effort_calculation_json.object_efforts.t = "baddict"

\* C12: analyze_database_sp, calculate_effort_sp and generate_document_sp
\* each return and never raise, whatever the input and whatever the driver
\* does, and each failure is returned as a document with an error field.
C12_ProceduresReturnFailuresAsData ==
    /\ pc \in {"ad_return", "app_done"} =>
           /\ sp_result.keys # {}
           /\ AnalyzeFailed => "error" \in sp_result.keys
    /\ pc = "ce_return" =>
           /\ ce_result.how = "return"
           /\ ce_result.error # "" \/ ce_result.effort.complexity # ""
           /\ analysis_results_json.json # "object" => ce_result.error # ""
    /\ pc = "gd_return" =>
           /\ doc_result.how = "return"
           /\ doc_result.rendered <=> doc_result.error = ""
           /\ DocumentFailed => doc_result.error # ""

\* generate_document_sp returned an error document after a filter raised on
\* an effort map whose entry is not a dictionary.
C12_Witness ==
    /\ pc = "gd_return"
    /\ template_string = "filters"
    /\ effort_calculation_json.object_efforts.t = "baddict"
    /\ doc_result.how = "return"
    /\ doc_result.error = "An unexpected error occurred in generate_document_sp"

\* C14: for an analysis document whose total_objects is a dictionary
\* calculate_effort_sp returns an estimate, and for one whose total_objects
\* is not a dictionary it returns the invalid-input error.
C14_FailsOnlyOnNonDictionaryCounts ==
    (pc = "ce_return" /\ analysis_results_json.json = "object") =>
        IF analysis_results_json.total_objects.t = "dict"
        THEN ce_result.error = ""
        ELSE ce_result.error = "Invalid analysis_results_json"

\* The document itself serves as the counts: its "tables" is an integer.
RootHasIntegerTables ==
    /\ "tables" \in DOMAIN analysis_results_json.root
    /\ analysis_results_json.root["tables"].t = "int"

\* The counts dictionary calculate_effort_sp settles on, when there is one.
CountsFound ==
    IF analysis_results_json.total_objects.t = "dict"
    THEN analysis_results_json.total_objects.d
    ELSE analysis_results_json.root

\* C14 as the code has it: for an analysis document that is a JSON object,
\* the counts are total_objects when that is a dictionary and otherwise the
\* document itself when its "tables" is an integer; with neither the
\* invalid-input error is returned; with counts whose value under tables,
\* views, procedures or functions is not a number an unexpected-error
\* document is returned; in every other case the estimate of those counts.
C14_EstimateNeedsNumericCountsDictionary ==
    (pc = "ce_return" /\ analysis_results_json.json = "object") =>
        IF analysis_results_json.total_objects.t # "dict" /\ ~RootHasIntegerTables
        THEN ce_result.error = "Invalid analysis_results_json"
        ELSE IF \E k \in DOMAIN CountsFound \cap ObjectTypes : CountsFound[k].t # "int"
        THEN ce_result.error = "An unexpected error occurred in calculate_effort_sp"
        ELSE /\ ce_result.error = ""
             /\ ce_result.effort.total_hours =
                    HoursFor([k \in DOMAIN CountsFound |-> CountsFound[k].v], "tables", 2)
                  + HoursFor([k \in DOMAIN CountsFound |-> CountsFound[k].v], "views", 1)
                  + HoursFor([k \in DOMAIN CountsFound |-> CountsFound[k].v], "procedures", 4)
                  + HoursFor([k \in DOMAIN CountsFound |-> CountsFound[k].v], "functions", 3)

\* An estimate made from the document's own keys: total_objects is null and
\* the root has tables 3 and views 3.
C14_Witness ==
    /\ pc = "ce_return"
    /\ analysis_results_json.total_objects.t = "null"
    /\ DOMAIN analysis_results_json.root = {"tables", "views"}
    /\ ce_result.error = ""
    /\ ce_result.effort.total_hours = 9

\* A dictionary of counts with a count that is not a number ends in an error.
C14_NonNumericCountReached ==
    /\ pc = "ce_return"
    /\ analysis_results_json.total_objects.t = "dict"
    /\ ce_result.error = "An unexpected error occurred in calculate_effort_sp"

\* generate_document_sp rendered the template that uses the two filters.
FiltersRendered ==
    pc = "gd_return" /\ template_string = "filters" /\ doc_result.rendered

\* C17: _format_list_filter returns the "not applicable" sentinel exactly
\* when its argument is an empty list, missing, null or not a list, and
\* otherwise one "- item" line per item in the order of the list.
C17_ListFilterSentinelOrBullets ==
    FiltersRendered =>
        LET items_list == effort_calculation_json.risks
            out        == doc_result.risks
        IN  IF items_list.t # "list" \/ Len(items_list.l) = 0
            THEN /\ out.text = "- Not applicable or no specific items provided."
                 /\ out.lines = << >>
            ELSE /\ out.text = ""
                 /\ Len(out.lines) = Len(items_list.l)
                 /\ \A i \in 1..Len(items_list.l) : out.lines[i] = "- " \o items_list.l[i]

\* The list b, a rendered as two bullets in that order.
C17_Witness ==
    /\ FiltersRendered
    /\ effort_calculation_json.risks = ItemsList(<<"b", "a">>)
    /\ doc_result.risks.lines = <<"- b", "- a">>

\* C18: _format_object_efforts_filter emits, after the two header lines, one
\* row for each entry of the effort map whose count is greater than zero, in
\* the map's order, and none for a count of zero; it returns a sentinel in
\* place of the table exactly when no entry has a positive count ("No
\* specific object efforts available." for an empty map or no map at all,
\* "No specific object efforts with count > 0 available." otherwise).
C18_EffortTableSkipsZeroCounts ==
    FiltersRendered =>
        LET oe       == effort_calculation_json.object_efforts
            out      == doc_result.efforts
            positive == IF oe.t = "dict" THEN {k \in DOMAIN oe.d : oe.d[k].count > 0} ELSE {}
        IN  IF positive = {}
            THEN /\ out.lines = << >>
                 /\ out.text = IF oe.t = "dict" /\ DOMAIN oe.d # {}
                               THEN "No specific object efforts with count > 0 available."
                               ELSE "No specific object efforts available."
            ELSE /\ out.text = ""
                 /\ Len(out.lines) = 2 + Cardinality(positive)
                 /\ out.lines[1].kind = "header" /\ out.lines[2].kind = "rule"
                 /\ \A i \in 3..Len(out.lines) :
                      /\ out.lines[i].kind = "row"
                      /\ out.lines[i].count > 0
                      /\ \E k \in positive :
                           out.lines[i] = RowLine(Capitalize(k), oe.d[k])
                 /\ \A i, j \in 3..Len(out.lines) :
                      out.lines[i].obj = out.lines[j].obj => i = j

\* A map with tables at count zero and views at count two: one row, for views.
C18_Witness ==
    /\ FiltersRendered
    /\ effort_calculation_json.object_efforts.t = "dict"
    /\ DOMAIN effort_calculation_json.object_efforts.d = {"tables", "views"}
    /\ effort_calculation_json.object_efforts.d["tables"].count = 0
    /\ effort_calculation_json.object_efforts.d["views"].count = 2
    /\ Len(doc_result.efforts.lines) = 3
    /\ doc_result.efforts.lines[3].obj = "Views"

\* C13: no driver exception crosses the boundary of get_source_db_connection
\* or of fetch_object_counts, whichever of connect, cursor, execute, fetch
\* and cursor close fails: the first returns a connection or None, the second
\* returns a result record.
C13_NoDriverExceptionCrossesBoundary ==
    /\ pc = "gc_return" => conn_ret \in {None, "conn"}
    /\ pc = "fo_return" => fetch_result.how = "return"

\* The only exception that leaves fetch_object_counts is the one of the
\* cursor's close in the finally block.
C13_OnlyCursorCloseEscapes ==
    (pc = "fo_return" /\ fetch_result.how # "return") =>
        /\ fetch_result.how = "raise"
        /\ cursor = "open"
        /\ cursorCloseCalls = 1

\* C19: fetch_object_counts called with a null connection returns, for every
\* source kind, the counts tables 10, views 5, procedures 2, functions 3 with
\* an empty schemas_summary and no error field, and calculate_migration_effort
\* on those counts gives 42 hours and complexity Low.
C19_NullConnectionCannedCounts ==
    (pc = "fo_return" /\ conn = "none") =>
        /\ fetch_result.how = "return"
        /\ fetch_result.doc.keys = {"total_objects", "schemas_summary"}
        /\ fetch_result.doc.total_objects =
               [tables |-> 10, views |-> 5, procedures |-> 2, functions |-> 3]
        /\ fetch_result.doc.schemas_summary = << >>
        /\ queriesIssued = 0
        /\ LET effort == calculate_migration_effort(db_type, fetch_result.doc.total_objects)
           IN  effort.total_hours = 42 /\ effort.complexity = "Low"

\* The canned counts returned for a kind the counter has no branch for.
C19_Witness ==
    /\ pc = "fo_return"
    /\ conn = "none"
    /\ db_type = "mysql"
    /\ fetch_result.how = "return"
    /\ fetch_result.doc.total_objects.tables = 10

C21_DerivedOwnerReached ==
    /\ pc = "fo_return"
    /\ db_type = "oracle"
    /\ schema_name = None
    /\ target_schema_oracle = "SCH"
    /\ Len(fetch_result.doc.schemas_summary) = 1
    /\ fetch_result.doc.schemas_summary[1].name = "SCH"

\* The number a port value stands for, whether the driver gets it as an int
\* or as a decimal string; -1 for no port.
PortNumber(p) ==
    IF p.t = "int" THEN p.v ELSE IF p.t = "str" /\ IsDecimal(p.s) THEN IntOfStr(p.s) ELSE -1

\* The connect arguments of the kind's try block have been computed.
ConnectArgsBuilt == pc \in {"gc_connect", "gc_return"} /\ connect_args.driver # ""

\* C22 as stated: without a port in the connection parameters the connect
\* call gets 5432 for postgresql, 1521 for oracle, 1025 for teradata and no
\* port for databricks and snowflake; with a port in the parameters, the
\* connect call gets that port.
C22_SuppliedPortIsUsed ==
    ConnectArgsBuilt =>
        IF connection_params.port = PNone
        THEN PortNumber(connect_args.port) =
                 (IF db_type = "postgresql" THEN 5432
                  ELSE IF db_type = "oracle" THEN 1521
                  ELSE IF db_type = "teradata" THEN 1025 ELSE -1)
        ELSE PortNumber(connect_args.port) = PortNumber(connection_params.port)

\* C22: postgresql, oracle and teradata connect with the port of the
\* connection parameters when it is a non-zero integer (teradata gets it as
\* a decimal string), and with 5432, 1521 and "1025" when the port is
\* absent, None, 0 or empty; databricks and snowflake are never passed a
\* port, supplied or not.
C22_PortDefaultsAndOverrides ==
    ConnectArgsBuilt =>
        LET given == connection_params.port
            used  == connect_args.port
        IN  IF db_type \in {"databricks", "snowflake"} THEN used = PNone
            ELSE IF PortTruthy(given)
                 THEN /\ PortNumber(used) = PortNumber(given)
                      /\ used.t = (IF db_type = "teradata" THEN "str" ELSE "int")
            ELSE used = (IF db_type = "postgresql" THEN PInt(5432)
                         ELSE IF db_type = "oracle" THEN PInt(1521)
                         ELSE PStr("1025"))

\* oracle is about to connect without a port in its parameters: 1521 is used.
C22_Witness ==
    /\ pc = "gc_connect"
    /\ db_type = "oracle"
    /\ connection_params.port = PNone
    /\ connect_args.port = PInt(1521)

\* teradata is about to connect with the port given as a decimal string.
C22_SuppliedPortReached ==
    /\ pc = "gc_connect"
    /\ db_type = "teradata"
    /\ connection_params.port = PStr("6000")
    /\ connect_args.port = PStr("6000")

\* The last n entries of a list.
LastEntries(list, n) == SubSeq(list, Len(list) - n + 1, Len(list))

\* The number of entries the kind's own branch adds to the five baseline
\* risks and to the five baseline recommendations.
OwnEntries(src) ==
    IF src \in {"oracle", "sqlserver", "postgresql", "teradata", "databricks"} THEN 3 ELSE 0

\* C23: for every source kind, calculate_migration_effort returns with
\* complexity High the risks and the recommendations of the lower tiers
\* followed by exactly three more entries each, and with complexity Low or
\* Medium none of those entries.
C23_HighAddsThreeRisksAndRecommendations ==
    pc = "cme_return" =>
        LET r        == effort_result
            extra    == IF r.complexity = "High" THEN 3 ELSE 0
            lowTier  == calculate_migration_effort(source_type, [k \in {} |-> 0])
            hiRisks  == << "Extended migration timeline and higher resou",
                           "Increased complexity in data validation and",
                           "More intricate rollback procedures and conti" >>
            hiRecs   == << "Strongly consider a phased migration approac",
                           "Implement comprehensive automated testing an",
                           "Establish clear communication channels and a" >>
        IN  /\ r.complexity \in {"Low", "Medium", "High"}
            /\ lowTier.complexity = "Low"
            /\ Len(r.risks) = 5 + OwnEntries(source_type) + extra
            /\ Len(r.recommendations) = 5 + OwnEntries(source_type) + extra
            /\ Take(r.risks, Len(r.risks) - extra) = lowTier.risks
            /\ Take(r.recommendations, Len(r.recommendations) - extra)
                   = lowTier.recommendations
            /\ IF r.complexity = "High"
               THEN /\ LastEntries(r.risks, 3) = hiRisks
                    /\ LastEntries(r.recommendations, 3) = hiRecs
               ELSE /\ Entries(r.risks) \cap Entries(hiRisks) = {}
                    /\ Entries(r.recommendations) \cap Entries(hiRecs) = {}

\* An oracle estimate of exactly 200 hours: High, eleven risks and eleven
\* recommendations.
C23_Witness ==
    /\ pc = "cme_return"
    /\ source_type = "oracle"
    /\ effort_result.total_hours = 200
    /\ effort_result.complexity = "High"
    /\ Len(effort_result.risks) = 11
    /\ Len(effort_result.recommendations) = 11

\* A Medium estimate for a kind without a branch of its own: the five
\* baseline risks only.
C23_MediumReached ==
    /\ pc = "cme_return"
    /\ source_type = "mysql"
    /\ effort_result.complexity = "Medium"
    /\ Len(effort_result.risks) = 5

\* C24: in every state of the page, a stored effort_result is the estimate
\* calculate_effort_sp gives for the stored analysis_result, a stored
\* generated_document was rendered from the stored effort_result and
\* analysis_result, and right after an edit of a connection input all three
\* are None.
C24_StoredResultsNeverStale ==
    LET ss == session_state
    IN  /\ ~ss.effort_result.isNone =>
               /\ ~ss.analysis_result.isNone
               /\ ss.effort_result.analysis = ss.analysis_result.doc
               /\ ss.effort_result.effort =
                      calculate_effort_sp(ss.connection_details.dbType,
                                          ToAnalysisJson(ss.analysis_result.doc)).effort
        /\ ~ss.generated_document.isNone =>
               /\ ~ss.effort_result.isNone
               /\ ~ss.analysis_result.isNone
               /\ ss.generated_document.effort = ss.effort_result.effort
               /\ ss.generated_document.analysis = ss.analysis_result.doc
        /\ ui_last.action = "edit" =>
               /\ ss.analysis_result.isNone
               /\ ss.effort_result.isNone
               /\ ss.generated_document.isNone

\* A document is on the page, rendered from the estimate of an analysis with
\* four objects.
C24_Witness ==
    /\ ~session_state.generated_document.isNone
    /\ ~session_state.effort_result.isNone
    /\ session_state.analysis_result.doc.total_objects.functions = 1
    /\ session_state.generated_document.effort.total_hours = 10
    /\ ui_last.action = "generate"

\* C25: in every state of the page, current_step = 2 only with an
\* analysis_result stored and current_step = 3 only with an effort_result
\* stored.
C25_StepAgreesWithResults ==
    /\ session_state.current_step = 2 => ~session_state.analysis_result.isNone
    /\ session_state.current_step = 3 => ~session_state.effort_result.isNone

\* current_step is ahead of the stored results only right after an Analyze
\* whose call came back with None.
C25_StepAheadOnlyAfterFailedAnalyze ==
    ~C25_StepAgreesWithResults =>
        /\ ui_last.action = "analyze"
        /\ ui_last.called
        /\ session_state.analysis_result.isNone

\* C26: with databricks selected, Analyze with an empty HTTP path makes no
\* analysis call, and with an HTTP path the connection parameters of the
\* call carry it under http_path, so that the connector's databricks
\* validation passes with the token of the credentials.
C26_DatabricksHttpPathReachesConnector ==
    (ui_last.action = "analyze" /\ ui_last.source_db_type = "databricks") =>
        /\ ~Truthy(session_state.dbx_http_path) => ~ui_last.called
        /\ (Truthy(session_state.dbx_http_path) /\ ui_last.called) =>
               /\ ui_last.connection_params.http_path = session_state.dbx_http_path
               /\ RequiredFieldsPresent("databricks", LocalCredentials("databricks"),
                                        ConnectorParams(ui_last.connection_params))

\* What the page does instead: no Analyze of a databricks source hands
\* http_path to the procedure, and none yields an analysis.
C26_DatabricksNeverAnalyzed ==
    (ui_last.action = "analyze" /\ ui_last.source_db_type = "databricks") =>
        /\ session_state.analysis_result.isNone
        /\ ui_last.called => ui_last.connection_params.http_path = Absent

\* Analyze was pressed for databricks with every field and an HTTP path
\* filled in, and the call was made.
C26_PathFilledInReached ==
    /\ ui_last.action = "analyze"
    /\ ui_last.source_db_type = "databricks"
    /\ ui_last.called
    /\ session_state.dbx_http_path = "/sql/1.0"

\* C27: within analyze_database_sp, fetch_object_counts runs only on a
\* connection get_source_db_connection returned; the JSON the procedure
\* returns never carries the canned counts 10, 5, 2, 3; and whenever no
\* connection was returned the procedure returns an error, having created
\* no cursor and issued no query.
C27_NoCountingWithoutConnection ==
    entry = "analyze_database_sp" =>
        /\ pc \in FetchPositions \cup {"fo_start"} => (conn_ret # None /\ conn # "none")
        /\ fetch_result.how = "return" => fetch_result.doc.total_objects # CannedCounts
        /\ pc \in {"ad_return", "app_done"} =>
               /\ sp_result.total_objects #
                      [tables |-> 10, views |-> 5, procedures |-> 2, functions |-> 3]
               /\ conn_ret = None =>
                      /\ sp_result.keys = {"error"}
                      /\ sp_result.error # ""
                      /\ fetch_result = NoResult
                      /\ cursor = "none"
                      /\ queriesIssued = 0

\* The driver's connect call failed: the procedure returned the connection
\* error without counting.
C27_Witness ==
    /\ entry = "analyze_database_sp"
    /\ pc = "ad_return"
    /\ connectCalls = 1
    /\ conn_ret = None
    /\ sp_result = ErrorDoc("Failed to connect to source database")
    /\ queriesIssued = 0

\* generate_document_sp has rendered a document from an analysis document.
DocumentRendered ==
    pc = "gd_return" /\ entry = "generate_document_sp" /\ doc_result.rendered

\* C28: for every analysis document, the objects generate_document_sp puts
\* into the document are the counts calculate_effort_sp computes the effort
\* from, and the one falls back to the document root exactly when the other
\* does.
C28_SameCountsSelected ==
    LET a == analysis_results_json
    IN  /\ DocumentRendered =>
               /\ objects_counts(a).from # "none" => doc_result.objects = objects_counts(a)
               /\ doc_result.objects.from = "root" <=> objects_counts(a).from = "root"
        /\ (pc = "ce_return" /\ ce_result.error = "") => objects_found(a) = objects_counts(a)

\* Where the two selections agree and where they do not: they agree on
\* every document whose total_objects is a dictionary with at least one key
\* (what analyze_database_sp returns); they differ exactly when the root has
\* an integer tables value and total_objects is an empty dictionary (the
\* effort is computed from the empty dictionary, the document shows the
\* root) or a non-empty list (the effort is computed from the root, the
\* document shows the list).
C28_SelectionsDifferOnlyWithRootTables ==
    LET a == analysis_results_json
        t == a.total_objects
    IN  /\ DocumentRendered =>
               /\ (t.t = "dict" /\ DOMAIN t.d # {}) =>
                      /\ doc_result.objects = objects_counts(a)
                      /\ doc_result.objects.from = "total_objects"
               /\ (objects_counts(a).from # "none" /\ doc_result.objects # objects_counts(a))
                      <=> /\ RootHasIntTables(a)
                          /\ t.t = "list" \/ (t.t = "dict" /\ DOMAIN t.d = {})
        /\ (pc = "ce_return" /\ a.json = "object") =>
               (ce_result.error = "Invalid analysis_results_json"
                    <=> objects_counts(a).from = "none")

\* A document was rendered from an analysis whose total_objects is an empty
\* dictionary and whose root has tables = 3.
C28_EmptyDictionaryWithRootReached ==
    /\ DocumentRendered
    /\ analysis_results_json.total_objects = JsonDict([k \in {} |-> JsonNull])
    /\ RootHasIntTables(analysis_results_json)
    /\ doc_result.objects.from = "root"
    /\ objects_counts(analysis_results_json).from = "total_objects"


\* The snowflake branch has called snowflake.connector.connect.
SnowflakeConnectCalled == ConnectArgsBuilt /\ db_type = "snowflake"

\* C29: for snowflake, the account passed to the driver's connect is the
\* non-empty account that satisfied the validation, whichever of the
\* credentials and the connection parameters holds it.
C29_ConnectGetsValidatedAccount ==
    SnowflakeConnectCalled =>
        /\ Truthy(connect_args.account)
        /\ connect_args.account = ValidatedAccount(credentials, connection_params)

\* The connect call gets the validated account whenever the credentials' account
\* key is absent or non-empty; with the key present and empty the validation
\* is satisfied by the parameters' account while connect gets the empty string.
C29_EmptyCredentialsAccountIsPassedOn ==
    SnowflakeConnectCalled =>
        IF credentials.account = ""
        THEN /\ connect_args.account = ""
             /\ ValidatedAccount(credentials, connection_params) = "param_account"
        ELSE /\ Truthy(connect_args.account)
             /\ connect_args.account = ValidatedAccount(credentials, connection_params)

\* Connect is reached with an empty account in the credentials.
C29_EmptyCredentialsAccountReached ==
    SnowflakeConnectCalled /\ credentials.account = ""


\* The positions of an analysis request after fetch_object_counts was left.
AfterFetchPositions == {"fo_return", "ad_finally", "ad_return", "app_done"}

\* C30: in one analysis request a cursor that fetch_object_counts opened has
\* close called on it exactly once on every path that leaves the function
\* (success, early return, unsupported kind, query failure), it is closed
\* unless that one call raised, and the call is made before
\* analyze_database_sp closes the connection.
C30_CursorClosedOnceBeforeConnection ==
    entry = "analyze_database_sp" =>
        /\ cursorCloseCalls <= 1
        /\ cursor = "none" => cursorCloseCalls = 0
        /\ (pc \in AfterFetchPositions /\ cursor # "none") =>
               /\ cursorCloseCalls = 1
               /\ fetch_result.how = "return" => cursor = "closed"
        /\ (connCloseCalls > 0 /\ cursor # "none") => cursorCloseCalls = 1
        /\ (pc \in FetchPositions \ {"fo_return"}) => connCloseCalls = 0

\* analyze_database_sp closed the connection after a query of
\* fetch_object_counts failed and the cursor was closed.
C30_Witness ==
    /\ entry = "analyze_database_sp"
    /\ pc = "ad_return"
    /\ failedAt = 3
    /\ cursor = "closed"
    /\ cursorCloseCalls = 1
    /\ connCloseCalls = 1

\* The success path: counts returned, cursor closed, then the connection.
C30_SuccessReached ==
    /\ entry = "analyze_database_sp" /\ pc = "ad_return"
    /\ cursor = "closed" /\ connCloseCalls = 1
    /\ "error" \notin fetch_result.doc.keys

\* The one close call of the cursor raised; the connection is closed after it.
C30_CloseRaisedReached ==
    /\ entry = "analyze_database_sp" /\ pc = "ad_return"
    /\ cursor = "open" /\ cursorCloseCalls = 1 /\ connCloseCalls = 1

====
